---- MODULE Spec2Model ----
(***************************************************************************)
(* Verification model of the MCTP transport library (threads.c, mctp.c,    *)
(* mctp.h, ctrl.c).  The specifications of this module:                    *)
(*   SpecFrag    packet writer (fragmenter), wire, packet reader           *)
(*               (reassembler), at byte level;                             *)
(*   SpecAct     submit, submission thread, message handler, packet        *)
(*               writer, socket writer, completion thread over the action  *)
(*               objects of a running connection;                          *)
(*   SpecSubmit  mctp_submit on an endpoint whose stage threads do not run;*)
(*   SpecSup     connection handler, mctp_stop, mctp_request_stop;         *)
(*   SpecDisp    inbound requests: handler table, MCTP Control handler;    *)
(*   SpecReuse   the action pipeline under repeated mctp_submit calls;     *)
(*   SpecLive    the action pipeline under fair scheduling, peer silent;   *)
(*   SpecSupFair SpecSup under fair scheduling;                            *)
(*   SpecConn    connection handler with the submission thread;            *)
(*   SpecRsp     the action pipeline with responses of any type;           *)
(*   SpecRx      socket reader and packet reader under any packet stream;  *)
(*   SpecLong    socket reader and packet reader under one long message;   *)
(*   SpecSock    socket reader under any recv() result and a full RPQ;     *)
(*   SpecFull    SpecRx with a full RMQ;                                   *)
(*   SpecTag     SpecDisp with requests of any tag;                        *)
(*   SpecSeq     SpecAct with the sequence numbers of the packets sent.    *)
(***************************************************************************)
EXTENDS Integers, Sequences, FiniteSets, TLC

(***************************************************************************)
(* Program constants (mctp.h)                                              *)
(***************************************************************************)
MCLN_BTU == 64
MCLN_HDR == 4
MCLN_PKT == MCLN_HDR + MCLN_BTU
MCLN_MSG_PAYLOAD == 8192
MCTP_NUM_TAGS == 8
MCTP_ACTION_DEFAULT_RETRY_NUM == 8
MCMT_CONTROL == 0
MCMT_PLDM == 1
MCMT_NCSI == 2
MCMT_ETHERNET == 3
MCMT_NVMEMI == 4
MCMT_SPDM == 5
MCMT_SECURE == 6
MCMT_CXLFMAPI == 7
MCMT_CXLCCI == 8
MCMT_CSE == 112
MCMT_VDM_PCI == 126
MCMT_VDM_IANA == 127

(***************************************************************************)
(* Bounds of the model                                                     *)
(***************************************************************************)
\* longest message FragSubmit draws, in packets; also the sender's packet pool
MaxPkts == 2
\* number of messages sent over one connection in SpecFrag
MaxMsgs == 2
\* SpecAct: sizes of the action pool, the message pool and the packet pool
NumActions == 2
NumMsgs == 3
NumPkts == 3
\* capacity of TAQ (MCTP_TAQ_SIZE, 128 in mctp.h), scaled down on its own:
\* smaller than the pools, so that a full TAQ is reached by the calls that
\* MaxIdleSubmits allows
TaqSize == 1
\* SpecAct: largest retry argument mctp_submit is called with
MaxRetry == 2
\* SpecAct: number of mctp_submit calls, number of responses the peer sends
MaxSubmits == 1
MaxResponses == 1
\* SpecSubmit: number of mctp_submit calls
MaxIdleSubmits == 3
\* SpecSup: number of connections a server accepts
MaxConns == 2

NULL == 0
UNINIT == -1

Tags == 0..(MCTP_NUM_TAGS - 1)

(***************************************************************************)
(* State                                                                   *)
(***************************************************************************)
VARIABLES
    \* ---- SpecFrag: sender side ----
    tx_msg,       \* message of the action the packet writer / socket writer works on
    tx_phase,     \* "idle" | "tmq" | "tpq" | "sent"
    tx_chain,     \* the action's packet chain (ma->pw), a sequence of packet slots
    pkts,         \* sender's packet pool, FIFO of packet slots with their contents
    pw_pkt_seq,   \* packet_writer.pkt_seq
    wire,         \* 68-byte records written to the socket and not yet read
    sent_log,     \* messages handed to the packet writer so far, in order
    probe,        \* last mctp_pkt_count() call made by a library user
    \* ---- SpecFrag: receiver side ----
    rpq,          \* receive packet queue
    pr_pkt_seq,   \* packet_reader.pkt_seq
    pr_tags,      \* packet_reader.tags[]: in-process message per tag
    pr_mm,        \* packet reader's local variable mm
    pr_cnt,       \* packet reader's counters
    pr_state,     \* "run" | "exit" | "crash"
    rmsg,         \* receiver's message objects
    rmsgs,        \* receiver's message pool
    rmq,          \* receive message queue
    pr_hist,      \* packets copied into each message since its SOM packet (observation only)
    sr,           \* socket reader: its counters, and what recv() returned for each packet pushed to RPQ (observation only)
    \* ---- SpecAct: the action pipeline of one endpoint ----
    act,          \* the struct mctp_action objects
    amsg,         \* the struct mctp_msg objects
    actions,      \* action pool (m->actions)
    msgs,         \* message pool (m->msgs)
    a_pkts,       \* number of packet slots in the packet pool (m->pkts)
    taq,          \* transmit action queue
    tmq,          \* transmit message queue
    tpq,          \* transmit packet queue
    acq,          \* action completion queue
    a_rmq,        \* receive message queue
    tags,         \* m->tags[]: outstanding action per tag
    stop_threads, \* m->stop_threads
    th,           \* stage threads: "run" | "exit"
    crashed,      \* the process took a fatal signal
    held,         \* actions a callback or handler kept for the user to retire later
    caller,       \* the thread inside a mctp_submit call that waits on the semaphore
    nsub,         \* number of mctp_submit calls made
    nrsp,         \* number of responses the peer has sent
    g,            \* history of each action since its mctp_submit (observation only)
    sub_log,      \* what the last mctp_submit call did (observation only)
    \* ---- SpecSup: the connection handler (supervisor) and mctp_stop ----
    sup_pc,       \* where the connection handler thread is
    mode,         \* m->mode
    all_threads_started, \* m->all_threads_started
    mtx,          \* owner of m->mtx: "free" | "sup" | "stop"
    cancel_pending, \* pthread_cancel(pt_ch) was called and has not been acted on
    stop_pc,      \* where the thread that calls mctp_stop is
    nconn,        \* connections accepted or made so far
    stop_how,     \* which branch mctp_stop took, and in which supervisor state (observation only)
    \* ---- SpecDisp: dispatch of inbound requests ----
    handlers,     \* m->handlers[]: "null" | "ctrl" (mctp_ctrl_handler) | "user"
    state,        \* m->state: eid, bus_owner_eid
    body,         \* src, dst and MCTP Control fields of the struct mctp_msg objects
    disp          \* the inbound request and what the dispatcher did with it (observation only)

fragVars == <<tx_msg, tx_phase, tx_chain, pkts, pw_pkt_seq, wire, sent_log, probe,
              rpq, pr_pkt_seq, pr_tags, pr_mm, pr_cnt, pr_state, rmsg, rmsgs, rmq, pr_hist, sr>>

\* fragVars without the packet writer's sequence counter and the packets
\* sent
fragNoTx == <<tx_msg, tx_phase, tx_chain, pkts, sent_log, probe,
              rpq, pr_pkt_seq, pr_tags, pr_mm, pr_cnt, pr_state, rmsg, rmsgs, rmq, pr_hist, sr>>

actVars == <<act, amsg, actions, msgs, a_pkts, taq, tmq, tpq, acq, a_rmq, tags, stop_threads,
             th, crashed, held, caller, nsub, nrsp, g, sub_log>>

supVars == <<sup_pc, mode, all_threads_started, mtx, cancel_pending, stop_pc, nconn, stop_how>>

dispVars == <<handlers, state, body, disp>>

vars == <<fragVars, actVars, supVars, dispVars>>

(***************************************************************************)
(* Helpers                                                                 *)
(***************************************************************************)
CeilDiv(a, b) == (a + b - 1) \div b

Zeros(n) == [k \in 1..n |-> 0]

\* byte i (from 0) of the payload of the p-th message submitted
PatByte(p, i) == (7 * i + 3 + 101 * p) % 256

\* byte i (from 0) of a message buffer; the buffer past what was written is
\* the zero-initialised pool element
MsgByte(mm, i) == IF i < Len(mm.payload) THEN mm.payload[i + 1] ELSE 0

\* memcpy(&buf[off], bytes, Len(bytes)) on a buffer kept as its written prefix
BufWrite(buf, off, bytes) ==
    LET n == Len(bytes)
        m == IF Len(buf) > off + n THEN Len(buf) ELSE off + n
    IN  IF off = Len(buf) THEN buf \o bytes
        ELSE [k \in 1..m |-> IF k > off /\ k <= off + n THEN bytes[k - off]
                              ELSE IF k <= Len(buf) THEN buf[k] ELSE 0]

NoMsg == [src |-> 0, dst |-> 0, type |-> 0, owner |-> 0, tag |-> 0, len |-> 0, payload |-> <<>>]

\* a calloc'ed struct mctp_pkt (header bit fields and payload)
ZeroPkt == [ver |-> 0, dest |-> 0, src |-> 0, tag |-> 0, owner |-> 0, seq |-> 0,
            eom |-> 0, som |-> 0, payload |-> Zeros(MCLN_BTU)]

(***************************************************************************)
(* mctp_pkt_count                                                          *)
(***************************************************************************)
PktCountTypes == {MCMT_PLDM, MCMT_NCSI, MCMT_ETHERNET, MCMT_NVMEMI, MCMT_SPDM, MCMT_SECURE,
                  MCMT_CXLFMAPI, MCMT_CSE, MCMT_CXLCCI, MCMT_VDM_PCI, MCMT_VDM_IANA}

\* mutant: the remainder packet is forgotten
mctp_pkt_count_m1(mm) ==
    IF mm.type = MCMT_CONTROL THEN 1
    ELSE IF mm.type \in PktCountTypes THEN mm.len \div MCLN_BTU
    ELSE 0

mctp_pkt_count(mm) ==
    IF mm.type = MCMT_CONTROL THEN 1
    ELSE IF mm.type \in PktCountTypes
         THEN (mm.len \div MCLN_BTU) + (IF (mm.len % MCLN_BTU) > 0 THEN 1 ELSE 0)
    ELSE 0

(***************************************************************************)
(* SpecFrag inputs                                                         *)
(***************************************************************************)
\* message lengths at and around the packet boundaries, up to MaxPkts packets
FragLens == {1} \cup UNION {{MCLN_BTU * k - 1, MCLN_BTU * k, MCLN_BTU * (k - 1) + 1} : k \in 1..MaxPkts}

\* control, a data type, and a type code mctp_pkt_count does not list
FragTypes == {MCMT_CONTROL, MCMT_PLDM, 9}

\* header fields as a request from mctp_submit (tag set by the submission
\* thread) and as a response filled by a handler carry them
FragHdrs == {[dst |-> 0, src |-> 0, owner |-> 1, tag |-> 0],
             [dst |-> 1, src |-> 2, owner |-> 0, tag |-> 5]}

NoProbe == [type |-> 0, len |-> 0, rv |-> -1]

PrCntZero == [packet_count |-> 0, message_count |-> 0, dropped_version |-> 0, dropped_seqnum |-> 0,
              dropped_noeom |-> 0, dropped_nosom |-> 0, dropped_wrongto |-> 0]

\* struct socket_reader after memset(0): the counters; last is the payload of
\* the last full record received, pushed the recv() return value of every
\* packet pushed to RPQ
SrZero == [packet_count |-> 0, dropped_count |-> 0, last |-> Zeros(MCLN_BTU), pushed |-> <<>>]

\* the socket reader's object after recv() returned rv and the slot, now
\* holding pkt, was pushed to RPQ
SrPushed(pkt, rv) == [sr EXCEPT !.packet_count = @ + 1,
                               !.last = IF rv = MCLN_PKT THEN pkt.payload ELSE @,
                               !.pushed = Append(@, rv)]

\* receiver's message pool size: every message sent can be in RMQ at once,
\* plus one in process
RxMsgIds == 1..(MaxMsgs * MaxPkts + 1)

(***************************************************************************)
(* SpecAct data: actions, messages, pools                                  *)
(***************************************************************************)
ActIds == 1..NumActions
AMsgIds == 1..NumMsgs

\* a struct mctp_action after memset(0).  pw is the number of packet slots
\* on the chain and seq the sequence number in the header of the first of
\* them, kept where the packet headers are followed; submitted is "old" when the action timeout has elapsed
\* since the timestamp and "recent" when it has not (a zero timestamp is old)
ZeroAct == [req |-> NULL, rsp |-> NULL, pw |-> 0, seq |-> 0, completion_code |-> 0, num |-> 0, max |-> 0,
            valid |-> 0, sem |-> 0, fn_submitted |-> 0, fn_completed |-> 0, fn_failed |-> 0,
            submitted |-> "old"]

\* the fields of a struct mctp_msg the action pipeline reads
ZeroAMsg == [owner |-> 0, tag |-> 0, type |-> 0, len |-> 0]

\* nothing recorded about an action
NoHist == [retry |-> 0, pushes |-> 0, touts |-> 0, exhausted |-> FALSE, fn_submitted |-> 0,
           fn_completed |-> 0, fn_failed |-> 0, handler |-> 0, paired |-> FALSE, sendfail |-> FALSE,
           cb |-> FALSE]

NoCaller == [pc |-> "idle", ma |-> NULL, sem |-> 0, deadline |-> "future", rv |-> NULL,
             paired_in_time |-> FALSE]

NoSubLog == [rv |-> -1, why |-> "none", pre |-> <<>>, post |-> <<>>]

\* the seven stage threads of a connection
Stages == {"sr", "pr", "mh", "pw", "sw", "st", "ct"}
AllRun == [k \in Stages |-> "run"]

\* the connection handler has started the stage threads of the first
\* connection and waits for a stop request; nobody has called mctp_stop
SupRunVars ==
    /\ sup_pc = "wait"
    /\ mode = "server"
    /\ all_threads_started = 1
    /\ mtx = "free"
    /\ cancel_pending = FALSE
    /\ stop_pc = "idle"
    /\ nconn = 1
    /\ stop_how = "none"

\* MCTP Control and endpoint ID values
MCMT_MAX == 255
MCID_NULL == 0
MCID_BROADCAST == 255
MCCM_SET_ENDPOINT_ID == 1
MCSE_SET == 0
MCSE_RESET == 2
MCSE_DISCOVER == 3
MCCC_SUCCESS == 0
MCCC_ERROR_INVALID_DATA == 2
SET_EID_ACCEPTED == 0
SET_EID_REJECTED == 1
MCLN_CTRL == 2
MCLN_CTRL_SET_EID_RESP == 4

\* src, dst and control fields of a zeroed message
ZeroBody == [src |-> 0, dst |-> 0, req |-> 0, cmd |-> 0, operation |-> 0, eid |-> 0,
             comp_code |-> 0, assignment |-> 0]

NoDisp == [byte |-> -1, req |-> ZeroBody, idx |-> -1, fn |-> "none", rsp |-> "none"]

\* mctp_init: the handler table is zeroed but for mctp_ctrl_handler at
\* MCMT_CONTROL; the endpoint ID is not assigned
InitHandlers == [t \in 0..(MCMT_MAX - 1) |-> IF t = MCMT_CONTROL THEN "ctrl" ELSE "null"]

\* dispatch state of the specifications whose only inbound messages are
\* responses of the type the user has registered a handler for
DispRunVars ==
    /\ handlers = [InitHandlers EXCEPT ![MCMT_PLDM] = "user"]
    /\ state = [eid |-> 0, bus_owner_eid |-> 0]
    /\ body = [i \in AMsgIds |-> ZeroBody]
    /\ disp = NoDisp

\* state after mctp_init, mctp_configure and the start of the seven threads
ActInitVars ==
    /\ act = [a \in ActIds |-> ZeroAct]
    /\ amsg = [i \in AMsgIds |-> ZeroAMsg]
    /\ actions = [k \in 1..NumActions |-> k]
    /\ msgs = [k \in 1..NumMsgs |-> k]
    /\ a_pkts = NumPkts
    /\ taq = <<>>
    /\ tmq = <<>>
    /\ tpq = <<>>
    /\ acq = <<>>
    /\ a_rmq = <<>>
    /\ tags = [t \in Tags |-> NULL]
    /\ stop_threads = 0
    /\ th = AllRun
    /\ crashed = FALSE
    /\ held = {}
    /\ caller = NoCaller
    /\ nsub = 0
    /\ nrsp = 0
    /\ g = [a \in ActIds |-> NoHist]
    /\ sub_log = NoSubLog

\* state of the sender and the receiver of SpecFrag before the first message
FragInitVars ==
    /\ tx_msg = NoMsg
    /\ tx_phase = "idle"
    /\ tx_chain = <<>>
    /\ pkts = [k \in 1..MaxPkts |-> ZeroPkt]
    /\ pw_pkt_seq = 0
    /\ wire = <<>>
    /\ sent_log = <<>>
    /\ probe = NoProbe
    /\ rpq = <<>>
    /\ pr_pkt_seq = 0
    /\ pr_tags = [t \in Tags |-> NULL]
    /\ pr_mm = UNINIT
    /\ pr_cnt = PrCntZero
    /\ pr_state = "run"
    /\ rmsg = [i \in RxMsgIds |-> NoMsg]
    /\ rmsgs = [k \in 1..Cardinality(RxMsgIds) |-> k]
    /\ rmq = <<>>
    /\ pr_hist = [i \in RxMsgIds |-> <<>>]
    /\ sr = SrZero

FragInit ==
    /\ FragInitVars
    /\ ActInitVars
    /\ SupRunVars
    /\ DispRunVars

\* A library user calls mctp_pkt_count() on a message of some type and length
PktCount ==
    /\ tx_phase = "idle"
    /\ sent_log = <<>>
    /\ probe = NoProbe
    /\ \E t \in FragTypes, l \in 1..MCLN_MSG_PAYLOAD :
          probe' = [type |-> t, len |-> l, rv |-> mctp_pkt_count([type |-> t, len |-> l])]
    /\ UNCHANGED <<tx_msg, tx_phase, tx_chain, pkts, pw_pkt_seq, wire, sent_log,
                   rpq, pr_pkt_seq, pr_tags, pr_mm, pr_cnt, pr_state, rmsg, rmsgs, rmq, pr_hist, sr, actVars, supVars, dispVars>>

\* An action whose message has some header, type and payload reaches TMQ
FragSubmit ==
    /\ tx_phase = "idle"
    /\ probe = NoProbe
    /\ Len(sent_log) < MaxMsgs
    /\ \E h \in FragHdrs, t \in FragTypes, l \in FragLens :
          LET mm == [src |-> h.src, dst |-> h.dst, type |-> t, owner |-> h.owner, tag |-> h.tag,
                     len |-> l, payload |-> [k \in 1..l |-> PatByte(Len(sent_log), k - 1)]]
          IN  /\ tx_msg' = mm
              /\ sent_log' = Append(sent_log, mm)
    /\ tx_phase' = "tmq"
    /\ tx_chain' = <<>>
    /\ UNCHANGED <<pkts, pw_pkt_seq, wire, probe,
                   rpq, pr_pkt_seq, pr_tags, pr_mm, pr_cnt, pr_state, rmsg, rmsgs, rmq, pr_hist, sr, actVars, supVars, dispVars>>

(***************************************************************************)
(* Packet writer (fragmenter)                                              *)
(***************************************************************************)
\* body of the packet writer's loop for packet i of n, built in the slot pw
\* popped from the pool; seq is packet_writer.pkt_seq when the packet is built
pw_fill(pw, mm, i, n, seq) ==
    [pw EXCEPT !.ver = 1,
               !.dest = mm.dst,
               !.src = mm.src,
               !.owner = mm.owner % 2,
               !.tag = mm.tag % 8,
               !.eom = IF i = n - 1 THEN 1 ELSE @,
               !.seq = seq,
               !.som = IF i = 0 THEN 1 ELSE @,
               !.payload = IF i = 0
                           THEN [k \in 1..MCLN_BTU |-> IF k = 1 THEN mm.type ELSE MsgByte(mm, k - 2)]
                           ELSE [k \in 1..MCLN_BTU |-> MsgByte(mm, (i * MCLN_BTU) - 1 + (k - 1))]]

\* one iteration of the packet writer: TMQ -> packet chain -> TPQ
mctp_packet_writer ==
    /\ tx_phase = "tmq"
    /\ LET mm == tx_msg
           n  == mctp_pkt_count(mm)
       IN  /\ n <= Len(pkts)
           /\ tx_chain' = IF n = 0 THEN tx_chain
                          ELSE [i \in 1..n |-> pw_fill(pkts[i], mm, i - 1, n, (pw_pkt_seq + i - 1) % 4)]
           /\ pkts' = SubSeq(pkts, n + 1, Len(pkts))
           /\ pw_pkt_seq' = (pw_pkt_seq + n) % 4
    /\ tx_phase' = "tpq"
    /\ UNCHANGED <<tx_msg, wire, sent_log, probe,
                   rpq, pr_pkt_seq, pr_tags, pr_mm, pr_cnt, pr_state, rmsg, rmsgs, rmq, pr_hist, sr, actVars, supVars, dispVars>>

\* one iteration of the socket writer with every send() succeeding: the
\* packets of the chain are written to the socket in chain order
FragSocketWriter ==
    /\ tx_phase = "tpq"
    /\ wire' = wire \o tx_chain
    /\ tx_phase' = "sent"
    /\ UNCHANGED <<tx_msg, tx_chain, pkts, pw_pkt_seq, sent_log, probe,
                   rpq, pr_pkt_seq, pr_tags, pr_mm, pr_cnt, pr_state, rmsg, rmsgs, rmq, pr_hist, sr, actVars, supVars, dispVars>>

\* mctp_retire on the sender's action: the chain goes back to the packet
\* pool, slot by slot, with the contents the slots have
FragRetire ==
    /\ tx_phase = "sent"
    /\ pkts' = pkts \o tx_chain
    /\ tx_chain' = <<>>
    /\ tx_msg' = NoMsg
    /\ tx_phase' = "idle"
    /\ UNCHANGED <<pw_pkt_seq, wire, sent_log, probe,
                   rpq, pr_pkt_seq, pr_tags, pr_mm, pr_cnt, pr_state, rmsg, rmsgs, rmq, pr_hist, sr, actVars, supVars, dispVars>>

(***************************************************************************)
(* Socket reader and packet reader (reassembler) of the receiving endpoint *)
(***************************************************************************)
MCTP_RPQ_SIZE == 1024
MCTP_RMQ_SIZE == 128

\* one iteration of the socket reader with recv() returning a full record
FragSocketReader ==
    /\ wire # <<>>
    /\ Len(rpq) < MCTP_RPQ_SIZE
    /\ rpq' = Append(rpq, Head(wire))
    /\ sr' = SrPushed(Head(wire), MCLN_PKT)
    /\ wire' = Tail(wire)
    /\ UNCHANGED <<tx_msg, tx_phase, tx_chain, pkts, pw_pkt_seq, sent_log, probe,
                   pr_pkt_seq, pr_tags, pr_mm, pr_cnt, pr_state, rmsg, rmsgs, rmq, pr_hist, actVars, supVars, dispVars>>

\* the packet reader's view of the state when it has popped a packet
PrStart == [seq |-> pr_pkt_seq, tags |-> pr_tags, msg |-> rmsg, msgs |-> rmsgs, rmq |-> rmq,
            mm |-> pr_mm, cnt |-> [pr_cnt EXCEPT !.packet_count = @ + 1], go |-> "next",
            hist |-> pr_hist]

\* return the in-process message of tag t to the message pool
PrCancel(s, t) == [s EXCEPT !.msgs = Append(@, s.tags[t]), !.tags[t] = NULL]

\* LOOP 2: header version
PrVersion(s, pw) ==
    IF pw.ver # 1 THEN [s EXCEPT !.cnt.dropped_version = @ + 1, !.go = "drop"] ELSE s

\* LOOP 4 with the cancel of the message in process left out
PrSeq_m1(s, pw) ==
    IF s.go # "next" \/ s.seq = pw.seq THEN s
    ELSE LET s2 == [s EXCEPT !.cnt.dropped_seqnum = @ + 1]
         IN  IF pw.som = 0 THEN [s2 EXCEPT !.go = "drop"] ELSE [s2 EXCEPT !.seq = pw.seq]

\* LOOP 4: sequence number
PrSeq(s, pw) ==
    IF s.go # "next" \/ s.seq = pw.seq THEN s
    ELSE LET s1 == IF s.tags[pw.tag] # NULL THEN PrCancel(s, pw.tag) ELSE s
             s2 == [s1 EXCEPT !.cnt.dropped_seqnum = @ + 1]
         IN  IF pw.som = 0 THEN [s2 EXCEPT !.go = "drop"] ELSE [s2 EXCEPT !.seq = pw.seq]

\* LOOP 5: SOM while a message is in process for the tag
PrNoEom(s, pw) ==
    IF s.go # "next" THEN s
    ELSE IF pw.som = 1 /\ s.tags[pw.tag] # NULL
         THEN [PrCancel(s, pw.tag) EXCEPT !.cnt.dropped_noeom = @ + 1]
         ELSE s

\* LOOP 6: no SOM seen for the tag.  The statement mm->len += MCLN_BTU
\* writes through the local mm: the message of an earlier iteration, or an
\* uninitialised pointer (ub chooses what the wild write does)
PrNoSom(s, pw, ub) ==
    IF s.go # "next" THEN s
    ELSE IF pw.som = 0 /\ s.tags[pw.tag] = NULL
         THEN LET s1 == [s EXCEPT !.cnt.dropped_nosom = @ + 1]
              IN  IF s.mm \in {UNINIT, NULL}
                  THEN [s1 EXCEPT !.go = IF ub = "crash" THEN "crash" ELSE "drop"]
                  ELSE [s1 EXCEPT !.msg[s.mm].len = (@ + MCLN_BTU) % 65536, !.go = "drop"]
         ELSE s

\* LOOP 7: tag owner of the in-process message
PrWrongTo(s, pw) ==
    IF s.go # "next" THEN s
    ELSE IF s.tags[pw.tag] # NULL /\ pw.owner # s.msg[s.tags[pw.tag]].owner
         THEN [PrCancel(s, pw.tag) EXCEPT !.cnt.dropped_wrongto = @ + 1]
         ELSE s

\* LOOP 8-10: new message buffer for a SOM packet, or append to the
\* in-process message
PrCopy(s, pw, ub) ==
    IF s.go # "next" THEN s
    ELSE IF pw.som = 1
    THEN IF s.msgs = <<>> THEN [s EXCEPT !.go = "block"]
         ELSE LET id == Head(s.msgs)
                  nm == [src |-> pw.src, dst |-> pw.dest, owner |-> pw.owner, tag |-> pw.tag,
                         type |-> pw.payload[1], len |-> MCLN_BTU - 1,
                         payload |-> BufWrite(s.msg[id].payload, 0, SubSeq(pw.payload, 2, MCLN_BTU))]
              IN  [s EXCEPT !.msgs = Tail(@), !.mm = id, !.msg[id] = nm, !.tags[pw.tag] = id,
                            !.hist[id] = <<pw>>]
    ELSE IF s.tags[pw.tag] = NULL THEN [s EXCEPT !.mm = NULL, !.go = "crash"]
         ELSE LET id == s.tags[pw.tag]
                  ln == s.msg[id].len
              IN  IF ln + MCLN_BTU > MCLN_MSG_PAYLOAD /\ ub = "crash"
                  THEN [s EXCEPT !.mm = id, !.go = "crash"]
                  ELSE [s EXCEPT !.mm = id,
                                 !.msg[id].payload = BufWrite(@, ln, pw.payload),
                                 !.msg[id].len = (ln + MCLN_BTU) % 65536,
                                 !.hist[id] = Append(@, pw)]

\* LOOP 11-12: a complete message goes to RMQ
PrEom(s, pw, cap) ==
    IF s.go # "next" \/ pw.eom # 1 THEN s
    ELSE IF Len(s.rmq) >= cap THEN [s EXCEPT !.go = "end"]
         ELSE [s EXCEPT !.rmq = Append(@, s.mm), !.tags[pw.tag] = NULL,
                        !.cnt.message_count = @ + 1]

\* LOOP 13: drop label, advance the expected sequence number
PrDrop(s) ==
    IF s.go \in {"next", "drop"} THEN [s EXCEPT !.seq = (@ + 1) % 4] ELSE s

PrRun(pw, ub, cap) ==
    LET s0 == PrStart
        s1 == PrVersion(s0, pw)
        s2 == PrSeq(s1, pw)
        s3 == PrNoEom(s2, pw)
        s4 == PrNoSom(s3, pw, ub)
        s5 == PrWrongTo(s4, pw)
        s6 == PrCopy(s5, pw, ub)
        s7 == PrEom(s6, pw, cap)
    IN  PrDrop(s7)

\* one iteration of the packet reader on the packet at the head of RPQ,
\* RMQ holding up to cap messages
PacketReader(cap) ==
    /\ pr_state = "run"
    /\ rpq # <<>>
    /\ \E ub \in {"crash", "benign"} :
          LET s == PrRun(Head(rpq), ub, cap)
          IN  /\ s.go # "block"
              /\ pr_pkt_seq' = s.seq
              /\ pr_tags' = s.tags
              /\ rmsg' = s.msg
              /\ rmsgs' = s.msgs
              /\ rmq' = s.rmq
              /\ pr_mm' = s.mm
              /\ pr_cnt' = s.cnt
              /\ pr_hist' = s.hist
              /\ pr_state' = CASE s.go = "crash" -> "crash"
                               [] s.go = "end" -> "exit"
                               [] OTHER -> "run"
    /\ rpq' = Tail(rpq)
    /\ UNCHANGED <<tx_msg, tx_phase, tx_chain, pkts, pw_pkt_seq, wire, sent_log, probe, sr, actVars, supVars, dispVars>>

mctp_packet_reader == PacketReader(MCTP_RMQ_SIZE)

FragNext ==
    \/ PktCount
    \/ FragSubmit
    \/ mctp_packet_writer
    \/ FragSocketWriter
    \/ FragRetire
    \/ FragSocketReader
    \/ mctp_packet_reader

SpecFrag == FragInit /\ [][FragNext]_vars

(***************************************************************************)
(* Claims on the fragmenter and the reassembler (SpecFrag)                 *)
(***************************************************************************)
\* the len payload bytes of a message
MsgBytes(mm) == [k \in 1..mm.len |-> MsgByte(mm, k - 1)]

SameMsg(a, b) ==
    /\ a.len = b.len
    /\ a.type = b.type
    /\ a.tag = b.tag
    /\ a.owner = b.owner
    /\ a.src = b.src
    /\ a.dst = b.dst
    /\ MsgBytes(a) = MsgBytes(b)

\* every packet written has been read and reassembled
FragDrained == tx_phase \in {"idle", "sent"} /\ wire = <<>> /\ rpq = <<>>

\* C1: round trip.  The k-th message the reader delivers to RMQ is identical
\* (payload bytes, length, type, tag, tag owner, endpoint IDs) to the k-th
\* message fragmented, and once the packet stream is consumed every message
\* fragmented has been delivered.
C1_RoundTrip ==
    /\ Len(rmq) <= Len(sent_log)
    /\ \A k \in 1..Len(rmq) : k <= Len(sent_log) => SameMsg(rmsg[rmq[k]], sent_log[k])
    /\ FragDrained => Len(rmq) = Len(sent_log)

\* packets mctp_pkt_count's switch assigns to type t and length l
ExpectedCount(t, l) ==
    IF t = MCMT_CONTROL THEN 1
    ELSE IF t \in PktCountTypes THEN CeilDiv(l, MCLN_BTU)
    ELSE 0

\* C2 as stated: whatever the message type, the fragmenter chains exactly
\* ceil(L/64) packets onto the action (and mctp_pkt_count returns that).
C2_CeilForEveryType ==
    /\ tx_phase \in {"tpq", "sent"} => Len(tx_chain) = CeilDiv(tx_msg.len, MCLN_BTU)
    /\ probe # NoProbe => probe.rv = CeilDiv(probe.len, MCLN_BTU)

\* C2 amended: ceil(L/64) packets for the eleven data message types that
\* mctp_pkt_count lists (1 for L = 1 and L = 64, 2 for L = 65, 128 for
\* L = 8192); exactly 1 packet for a control message whatever L; 0 packets
\* for any other type code.
C2_CeilForDataTypes ==
    /\ tx_phase \in {"tpq", "sent"} => Len(tx_chain) = ExpectedCount(tx_msg.type, tx_msg.len)
    /\ probe # NoProbe => probe.rv = ExpectedCount(probe.type, probe.len)
    /\ (probe # NoProbe /\ probe.type \in PktCountTypes /\ probe.len = MCLN_MSG_PAYLOAD) => probe.rv = 128

\* C2 witness: a 65-byte data message has been fragmented into 2 packets
C2_Witness ==
    /\ tx_phase = "tpq"
    /\ tx_msg.type = MCMT_PLDM
    /\ tx_msg.len = MCLN_BTU + 1
    /\ Len(tx_chain) = 2

\* C3: every packet i of the n packets built for one message has version 1,
\* the message's dst, src, tag owner and tag, SOM = 1 iff i = 0, EOM = 1 iff
\* i = n-1, seq following the writer's counter (which advances by 1 mod 4
\* per packet), and packet 0 carries the message type in payload[0].
C3_PacketFields ==
    tx_phase = "tpq" =>
        LET n == Len(tx_chain)
        IN  \A i \in 1..n :
               /\ tx_chain[i].ver = 1
               /\ tx_chain[i].dest = tx_msg.dst
               /\ tx_chain[i].src = tx_msg.src
               /\ tx_chain[i].owner = tx_msg.owner
               /\ tx_chain[i].tag = tx_msg.tag
               /\ tx_chain[i].som = (IF i = 1 THEN 1 ELSE 0)
               /\ tx_chain[i].eom = (IF i = n THEN 1 ELSE 0)
               /\ tx_chain[i].seq = (pw_pkt_seq + 4 * n - n + i - 1) % 4
               /\ (i = 1 => tx_chain[i].payload[1] = tx_msg.type)

(***************************************************************************)
(* SpecAct: the action pipeline of one endpoint.  A user submits requests  *)
(* of one data type, each one packet long; the peer answers with responses *)
(* or stays silent; send() succeeds or fails; timeouts elapse.             *)
(***************************************************************************)
MCTP_TMQ_SIZE == 128
MCTP_TPQ_SIZE == 1024
MCTP_ACQ_SIZE == 128

\* retry arguments of mctp_submit: forever (-1), 0 .. MaxRetry
RetryVals == (-1)..MaxRetry

\* mctp_submit argument profiles: valid, m == NULL, obj == NULL, len == 0
SubmitArgs == {"ok", "null_m", "null_obj", "zero_len"}

\* tags of the responses the peer sends
RspTags == {0, 1}

\* length and type of the messages of SpecAct
ActLen == 1
ActType == MCMT_PLDM

\* pq_push of the pointer queue library: appends unless the queue is full
pq_push(q, x, cap) == IF Len(q) < cap THEN Append(q, x) ELSE q

\* the state a step of a stage works on
Cur == [act |-> act, amsg |-> amsg, actions |-> actions, msgs |-> msgs, a_pkts |-> a_pkts,
        taq |-> taq, tmq |-> tmq, tags |-> tags, held |-> held, g |-> g, crashed |-> crashed]

Commit(s) ==
    /\ act' = s.act
    /\ amsg' = s.amsg
    /\ actions' = s.actions
    /\ msgs' = s.msgs
    /\ a_pkts' = s.a_pkts
    /\ taq' = s.taq
    /\ tmq' = s.tmq
    /\ tags' = s.tags
    /\ held' = s.held
    /\ g' = s.g
    /\ crashed' = s.crashed

\* mctp_retire: request, response and packet chain go back to their pools,
\* the action is zeroed and goes back to the action pool
mctp_retire(s, a) ==
    LET A  == s.act[a]
        m1 == IF A.req # NULL THEN pq_push(s.msgs, A.req, NumMsgs) ELSE s.msgs
        m2 == IF A.rsp # NULL THEN pq_push(m1, A.rsp, NumMsgs) ELSE m1
    IN  [s EXCEPT !.msgs = m2,
                  !.a_pkts = IF @ + A.pw > NumPkts THEN NumPkts ELSE @ + A.pw,
                  !.act[a] = ZeroAct,
                  !.actions = pq_push(@, a, NumActions)]

\* a callback (fn_completed, fn_failed) or a message handler of the user is
\* called with action a: it retires the action before it returns (ur) or
\* keeps it to retire it later
UserCall(s, a, fn, ur) ==
    LET s1 == [s EXCEPT !.g[a][fn] = @ + 1]
    IN  IF ur THEN mctp_retire(s1, a) ELSE [s1 EXCEPT !.held = @ \cup {a}]

\* the user retires an action a callback or handler kept
UserRetire ==
    /\ ~crashed
    /\ \E a \in held : Commit([mctp_retire(Cur, a) EXCEPT !.held = @ \ {a}])
    /\ UNCHANGED <<tpq, acq, a_rmq, stop_threads, th, caller, nsub, nrsp, sub_log, fragVars, supVars, dispVars>>

\* pool and TAQ occupancy a mctp_submit call starts from or ends with
Snap(ms, as, q) == [msgs |-> Len(ms), actions |-> Len(as), taq |-> q]

\* mctp_submit, called at most limit times.  sync: the caller passes a
\* timeout and pends on the semaphore
Submit(limit) ==
    /\ ~crashed
    /\ nsub < limit
    /\ caller.pc # "wait"
    /\ nsub' = nsub + 1
    /\ \E arg \in SubmitArgs, retry \in RetryVals, cb \in {0, 1}, sync \in BOOLEAN :
          IF arg # "ok"
          THEN /\ sub_log' = [rv |-> NULL, why |-> arg, pre |-> Snap(msgs, actions, taq),
                                post |-> Snap(msgs, actions, taq)]
               /\ UNCHANGED <<act, amsg, actions, msgs, taq, g, caller>>
          ELSE /\ msgs # <<>>
               /\ actions # <<>>
               /\ LET mm   == Head(msgs)
                      ma   == Head(actions)
                      full == Len(taq) >= TaqSize
                  IN  /\ msgs' = Tail(msgs)
                      /\ actions' = Tail(actions)
                      /\ amsg' = [amsg EXCEPT ![mm].owner = 1, ![mm].type = ActType, ![mm].len = ActLen]
                      /\ act' = [act EXCEPT ![ma] =
                                   [ZeroAct EXCEPT !.valid = 1,
                                                   !.req = mm,
                                                   !.max = IF retry < -1 THEN MCTP_ACTION_DEFAULT_RETRY_NUM
                                                           ELSE retry,
                                                   !.fn_submitted = cb,
                                                   !.fn_completed = cb,
                                                   !.fn_failed = cb,
                                                   !.sem = IF sync THEN 1 ELSE 0]]
                      /\ taq' = pq_push(taq, ma, TaqSize)
                      /\ g' = [g EXCEPT ![ma] = [NoHist EXCEPT !.retry = retry, !.cb = (cb = 1)]]
                      /\ caller' = IF sync /\ ~full
                                   THEN [NoCaller EXCEPT !.pc = "wait", !.ma = ma]
                                   ELSE caller
                      /\ sub_log' = [rv   |-> IF full THEN NULL ELSE IF sync THEN -1 ELSE ma,
                                     why  |-> IF full THEN "taq_full" ELSE "ok",
                                     pre  |-> Snap(msgs, actions, taq),
                                     post |-> Snap(Tail(msgs), Tail(actions), pq_push(taq, ma, TaqSize))]
    /\ UNCHANGED <<a_pkts, tmq, tpq, acq, a_rmq, tags, stop_threads, th, crashed, held, nrsp, fragVars, supVars, dispVars>>

\* mctp_submit on an endpoint whose stage threads run
mctp_submit == Submit(MaxSubmits)

\* the deadline of the pending mctp_submit call passes
DeadlineElapse ==
    /\ caller.pc = "wait"
    /\ caller.deadline = "future"
    /\ caller' = [caller EXCEPT !.deadline = "passed"]
    /\ UNCHANGED <<act, amsg, actions, msgs, a_pkts, taq, tmq, tpq, acq, a_rmq, tags, stop_threads,
                   th, crashed, held, nsub, nrsp, g, sub_log, fragVars, supVars, dispVars>>

\* sem_timedwait returns in mctp_submit: 0 when the semaphore was posted,
\* ETIMEDOUT at the deadline; the call returns the action or NULL
SubmitWaitReturn ==
    /\ caller.pc = "wait"
    /\ caller.sem > 0 \/ caller.deadline = "passed"
    /\ caller' = [caller EXCEPT !.pc = "returned",
                                !.rv = IF caller.sem > 0 THEN caller.ma ELSE NULL,
                                !.sem = IF caller.sem > 0 THEN caller.sem - 1 ELSE 0]
    /\ UNCHANGED <<act, amsg, actions, msgs, a_pkts, taq, tmq, tpq, acq, a_rmq, tags, stop_threads,
                   th, crashed, held, nsub, nrsp, g, sub_log, fragVars, supVars, dispVars>>

(***************************************************************************)
(* Submission thread (scheduler)                                           *)
(***************************************************************************)
\* first loop of a pass, tag slot i: an outstanding action whose timeout
\* has elapsed is failed or retired when num >= max, resubmitted otherwise
SweepSlot_m(s, i, ur) ==
    LET a == s.tags[i]
    IN  IF a = NULL THEN s
        ELSE IF s.act[a].submitted = "recent" THEN s
        ELSE LET s0 == [s EXCEPT !.g[a].touts = @ + 1]
             IN  IF s.act[a].num > s.act[a].max
                 THEN LET s1 == IF s.act[a].fn_failed # NULL
                                THEN UserCall(s0, a, "fn_failed", ur)
                                ELSE mctp_retire(s0, a)
                      IN  [s1 EXCEPT !.tags[i] = NULL, !.g[a].exhausted = TRUE]
                 ELSE [s0 EXCEPT !.act[a].num = @ + 1,
                                 !.act[a].submitted = "recent",
                                 !.tmq = pq_push(@, a, MCTP_TMQ_SIZE),
                                 !.g[a].pushes = @ + 1]

SweepSlot(s, i, ur) ==
    LET a == s.tags[i]
    IN  IF a = NULL THEN s
        ELSE IF s.act[a].submitted = "recent" THEN s
        ELSE LET s0 == [s EXCEPT !.g[a].touts = @ + 1]
             IN  IF s.act[a].num >= s.act[a].max
                 THEN LET s1 == IF s.act[a].fn_failed # NULL
                                THEN UserCall(s0, a, "fn_failed", ur)
                                ELSE mctp_retire(s0, a)
                      IN  [s1 EXCEPT !.tags[i] = NULL, !.g[a].exhausted = TRUE]
                 ELSE [s0 EXCEPT !.act[a].num = @ + 1,
                                 !.act[a].submitted = "recent",
                                 !.tmq = pq_push(@, a, MCTP_TMQ_SIZE),
                                 !.g[a].pushes = @ + 1]

\* second loop of a pass, tag slot i: a free slot takes the next action of
\* TAQ, which gets the slot number as its tag and goes to TMQ.  An action
\* without a request (zeroed by a retire) faults at ma->req->tag
PromoteSlot(s, i) ==
    IF s.crashed \/ s.tags[i] # NULL \/ s.taq = <<>> THEN s
    ELSE LET a == Head(s.taq)
             r == s.act[a].req
         IN  IF r = NULL
             THEN [s EXCEPT !.taq = Tail(@), !.act[a].num = 1, !.act[a].submitted = "recent",
                            !.crashed = TRUE]
             ELSE [s EXCEPT !.taq = Tail(@),
                            !.act[a].num = 1,
                            !.act[a].submitted = "recent",
                            !.amsg[r].tag = i,
                            !.tags[i] = a,
                            !.tmq = pq_push(@, a, MCTP_TMQ_SIZE),
                            !.g[a].pushes = @ + 1]

RECURSIVE Sweep(_, _, _)
Sweep(s, i, ur) ==
    IF i = MCTP_NUM_TAGS THEN s
    ELSE LET s1 == SweepSlot(s, i, ur) IN Sweep(s1, i + 1, ur)

RECURSIVE Promote(_, _)
Promote(s, i) ==
    IF i = MCTP_NUM_TAGS THEN s
    ELSE LET s1 == PromoteSlot(s, i) IN Promote(s1, i + 1)

\* the thread state after an iteration of a stage's loop
LoopEnd(stop) == IF stop # 0 THEN "exit" ELSE "run"

\* one pass of the submission thread, under tags_mtx
mctp_submission_thread ==
    /\ ~crashed
    /\ th.st = "run"
    /\ \E ur \in BOOLEAN : Commit(Promote(Sweep(Cur, 0, ur), 0))
    /\ th' = [th EXCEPT !.st = LoopEnd(stop_threads)]
    /\ UNCHANGED <<tpq, acq, a_rmq, stop_threads, caller, nsub, nrsp, sub_log, fragVars, supVars, dispVars>>

\* the action timeout elapses for an outstanding action
Elapse ==
    /\ ~crashed
    /\ \E i \in Tags :
          /\ tags[i] # NULL
          /\ act[tags[i]].submitted = "recent"
          /\ act' = [act EXCEPT ![tags[i]].submitted = "old"]
    /\ UNCHANGED <<amsg, actions, msgs, a_pkts, taq, tmq, tpq, acq, a_rmq, tags, stop_threads,
                   th, crashed, held, caller, nsub, nrsp, g, sub_log, fragVars, supVars, dispVars>>

(***************************************************************************)
(* Inbound: a response of the peer, reassembled, reaches RMQ               *)
(***************************************************************************)
\* socket reader and packet reader on a one-packet response with tag t:
\* a message of the pool is filled from the packet and pushed to RMQ
RecvResponse ==
    /\ ~crashed
    /\ th.sr = "run"
    /\ th.pr = "run"
    /\ nrsp < MaxResponses
    /\ msgs # <<>>
    /\ \E t \in RspTags :
          amsg' = [amsg EXCEPT ![Head(msgs)] = [owner |-> 0, tag |-> t, type |-> ActType, len |-> ActLen]]
    /\ msgs' = Tail(msgs)
    /\ a_rmq' = pq_push(a_rmq, Head(msgs), MCTP_RMQ_SIZE)
    /\ nrsp' = nrsp + 1
    /\ th' = [th EXCEPT !.sr = LoopEnd(stop_threads), !.pr = LoopEnd(stop_threads)]
    /\ UNCHANGED <<act, actions, a_pkts, taq, tmq, tpq, acq, tags, stop_threads, crashed, held,
                   caller, nsub, g, sub_log, fragVars, supVars, dispVars>>

(***************************************************************************)
(* Message handler (dispatcher)                                            *)
(***************************************************************************)
\* set_eid of the MCTP Control handler: takes a message for the response;
\* an unsupported operation or an invalid endpoint ID is answered by
\* retiring the action; else the endpoint ID and the bus owner are stored
\* and the action with its response is pushed to TMQ.  The owner and tag
\* fields of the response message are not written
set_eid(d, ma) ==
    IF d.s.msgs = <<>> THEN d
    ELSE LET rsp == Head(d.s.msgs)
             req == d.s.act[ma].req
             rq  == d.body[req]
             d1  == [d EXCEPT !.s.msgs = Tail(@), !.s.act[ma].rsp = rsp]
         IN  IF rq.operation \in {MCSE_RESET, MCSE_DISCOVER}
                   \/ rq.eid \in {MCID_NULL, MCID_BROADCAST}
             THEN LET d2 == [d1 EXCEPT !.body[rsp].comp_code = MCCC_ERROR_INVALID_DATA,
                                       !.body[rsp].assignment = SET_EID_REJECTED,
                                       !.body[rsp].eid = d.state.eid,
                                       !.s.act[ma].completion_code = 1]
                  IN  [d2 EXCEPT !.s = mctp_retire(d2.s, ma)]
             ELSE [d1 EXCEPT !.state = [eid |-> rq.eid, bus_owner_eid |-> rq.src],
                             !.body[rsp] = [@ EXCEPT !.comp_code = MCCC_SUCCESS,
                                                     !.assignment = SET_EID_ACCEPTED,
                                                     !.eid = rq.eid,
                                                     !.req = 0,
                                                     !.cmd = rq.cmd,
                                                     !.dst = rq.src,
                                                     !.src = rq.dst],
                             !.s.amsg[rsp].type = d.s.amsg[req].type,
                             !.s.amsg[rsp].len = MCLN_CTRL + MCLN_CTRL_SET_EID_RESP,
                             !.s.tmq = pq_push(@, ma, MCTP_TMQ_SIZE),
                             !.rsp = [owner |-> d.s.amsg[rsp].owner, tag |-> d.s.amsg[rsp].tag,
                                      comp_code |-> MCCC_SUCCESS,
                                      assignment |-> SET_EID_ACCEPTED, eid |-> rq.eid]]

\* mctp_ctrl_handler: a message that is not from the tag owner, is not a
\* request, or is addressed to an endpoint ID other than null, broadcast
\* and the endpoint's own is left alone; Set Endpoint ID goes to set_eid
mctp_ctrl_handler(d, ma) ==
    LET req == d.s.act[ma].req
        rq  == d.body[req]
    IN  IF d.s.amsg[req].owner = 0 THEN d
        ELSE IF rq.req = 0 THEN d
        ELSE IF rq.dst # MCID_NULL /\ rq.dst # MCID_BROADCAST /\ rq.dst # d.state.eid THEN d
        ELSE IF rq.cmd = MCCM_SET_ENDPOINT_ID THEN set_eid(d, ma)
        ELSE d

\* one iteration: a request gets a new action and goes to the handler of
\* its type; a response is paired with the action of its tag, whose slot is
\* cleared, and goes to fn_completed or to the handler of its type.  The
\* handler is called as the table entry reads: a null entry, or an entry
\* read beyond the table, faults
mctp_message_handler ==
    /\ ~crashed
    /\ th.mh = "run"
    /\ a_rmq # <<>>
    /\ LET mm   == Head(a_rmq)
           type == amsg[mm].type
           fn   == IF type < MCMT_MAX THEN handlers[type] ELSE "wild"
           d0   == [s |-> Cur, state |-> state, body |-> body, rsp |-> disp.rsp]
           Call(d, ma, ur) ==
               IF fn = "ctrl" THEN mctp_ctrl_handler([d EXCEPT !.s.g[ma].handler = @ + 1], ma)
               ELSE IF fn = "user" THEN [d EXCEPT !.s = UserCall(d.s, ma, "handler", ur)]
               ELSE [d EXCEPT !.s.crashed = TRUE]
           Done(d) == Commit(d.s) /\ state' = d.state /\ body' = d.body
       IN  IF amsg[mm].owner = 1
           THEN /\ actions # <<>>
                /\ \E ur \in BOOLEAN :
                      LET ma == Head(actions)
                          d1 == [d0 EXCEPT !.s.actions = Tail(@), !.s.act[ma].req = mm]
                          d2 == Call(d1, ma, ur)
                      IN  /\ Done(d2)
                          /\ disp' = [disp EXCEPT !.idx = type, !.fn = fn, !.rsp = d2.rsp]
                /\ UNCHANGED caller
           ELSE LET ma == tags[amsg[mm].tag]
                    d1 == [d0 EXCEPT !.s.tags[amsg[mm].tag] = NULL]
                IN  IF ma = NULL
                    THEN /\ Done([d1 EXCEPT !.s.msgs = pq_push(@, mm, NumMsgs)])
                         /\ UNCHANGED <<caller, disp>>
                    ELSE /\ \E ur \in BOOLEAN :
                               LET d2 == [d1 EXCEPT !.s.act[ma].rsp = mm, !.s.g[ma].paired = TRUE]
                               IN  Done(IF act[ma].fn_completed # NULL
                                        THEN [d2 EXCEPT !.s = UserCall(d2.s, ma, "fn_completed", ur)]
                                        ELSE Call(d2, ma, ur))
                         /\ caller' = IF caller.pc = "wait" /\ caller.ma = ma /\ caller.deadline = "future"
                                      THEN [caller EXCEPT !.paired_in_time = TRUE]
                                      ELSE caller
                         /\ UNCHANGED disp
    /\ a_rmq' = Tail(a_rmq)
    /\ th' = [th EXCEPT !.mh = LoopEnd(stop_threads)]
    /\ UNCHANGED <<tpq, acq, stop_threads, nsub, nrsp, sub_log, fragVars, supVars, handlers>>

(***************************************************************************)
(* Packet writer, socket writer, completion thread                         *)
(***************************************************************************)
\* mctp_request_stop
mctp_request_stop(stop) == 2

\* one iteration of the packet writer on the action pipeline: the response
\* if the action has one, else the request, is fragmented into a new chain
\* that replaces ma->pw; without either message the thread faults
\* (hdrs: the sequence numbers written to the packet headers are followed)
PacketWriterAct(hdrs) ==
    /\ ~crashed
    /\ th.pw = "run"
    /\ tmq # <<>>
    /\ LET ma == Head(tmq)
           mm == IF act[ma].rsp # NULL THEN act[ma].rsp ELSE act[ma].req
       IN  IF mm = NULL
           THEN /\ crashed' = TRUE
                /\ UNCHANGED <<act, a_pkts, tpq, pw_pkt_seq>>
           ELSE LET n == mctp_pkt_count(amsg[mm])
                IN  /\ a_pkts >= n
                    /\ a_pkts' = a_pkts - n
                    /\ act' = [act EXCEPT ![ma].pw = IF n = 0 THEN @ ELSE n,
                                          ![ma].seq = IF n = 0 \/ ~hdrs THEN @ ELSE pw_pkt_seq]
                    /\ pw_pkt_seq' = IF hdrs THEN (pw_pkt_seq + n) % 4 ELSE pw_pkt_seq
                    /\ tpq' = pq_push(tpq, ma, MCTP_TPQ_SIZE)
                    /\ UNCHANGED crashed
    /\ tmq' = Tail(tmq)
    /\ LET full == Len(tpq') = Len(tpq) /\ ~crashed'
       IN  /\ th' = [th EXCEPT !.pw = IF full THEN "exit" ELSE LoopEnd(stop_threads)]
           /\ stop_threads' = IF full /\ stop_threads = 0 THEN mctp_request_stop(stop_threads)
                              ELSE stop_threads
    /\ UNCHANGED <<amsg, actions, msgs, taq, acq, a_rmq, tags, held, caller,
                   nsub, nrsp, g, sub_log, fragNoTx, wire, supVars, dispVars>>

\* the packet writer where the packet headers are not followed
mctp_packet_writer_act == PacketWriterAct(FALSE)

\* the action whose send() returned <= 0
SendFailed_m(a) == a
SendFailed(a) == [a EXCEPT !.completion_code = 1]

\* one iteration of the socket writer: the chain is sent; a failed send()
\* completes the action with code 1 and ends the thread, which requests the
\* stop of the others; an action that carries a response goes to ACQ
SocketWriter(hdrs) ==
    /\ ~crashed
    /\ th.sw = "run"
    /\ tpq # <<>>
    /\ LET ma == Head(tpq)
           chain == [i \in 1..act[ma].pw |-> [ZeroPkt EXCEPT !.ver = 1, !.seq = (act[ma].seq + i - 1) % 4]]
       IN  \E ok \in BOOLEAN :
              IF act[ma].pw > 0 /\ ~ok
              THEN /\ act' = [act EXCEPT ![ma] = SendFailed(@)]
                   /\ acq' = pq_push(acq, ma, MCTP_ACQ_SIZE)
                   /\ g' = [g EXCEPT ![ma].sendfail = TRUE]
                   /\ th' = [th EXCEPT !.sw = "exit"]
                   /\ stop_threads' = IF stop_threads = 0 THEN mctp_request_stop(stop_threads)
                                      ELSE stop_threads
                   /\ UNCHANGED wire
              ELSE /\ acq' = IF act[ma].rsp # NULL THEN pq_push(acq, ma, MCTP_ACQ_SIZE) ELSE acq
                   /\ LET full == act[ma].rsp # NULL /\ Len(acq) >= MCTP_ACQ_SIZE
                      IN  /\ th' = [th EXCEPT !.sw = IF full THEN "exit" ELSE LoopEnd(stop_threads)]
                          /\ stop_threads' = IF full /\ stop_threads = 0
                                             THEN mctp_request_stop(stop_threads) ELSE stop_threads
                   /\ wire' = IF hdrs THEN wire \o chain ELSE wire
                   /\ UNCHANGED <<act, g>>
    /\ tpq' = Tail(tpq)
    /\ UNCHANGED <<amsg, actions, msgs, a_pkts, taq, tmq, a_rmq, tags, crashed, held, caller,
                   nsub, nrsp, sub_log, fragNoTx, pw_pkt_seq, supVars, dispVars>>

\* the socket writer where the packet headers are not followed
mctp_socket_writer == SocketWriter(FALSE)

\* one iteration of the completion thread
mctp_completion_thread ==
    /\ ~crashed
    /\ th.ct = "run"
    /\ acq # <<>>
    /\ LET ma == Head(acq)
       IN  \E ur \in BOOLEAN :
              Commit(IF act[ma].completion_code # 0
                     THEN IF act[ma].fn_failed # NULL THEN UserCall(Cur, ma, "fn_failed", ur)
                          ELSE mctp_retire(Cur, ma)
                     ELSE IF act[ma].fn_completed # NULL THEN UserCall(Cur, ma, "fn_completed", ur)
                          ELSE mctp_retire(Cur, ma))
    /\ acq' = Tail(acq)
    /\ th' = [th EXCEPT !.ct = LoopEnd(stop_threads)]
    /\ UNCHANGED <<tpq, a_rmq, stop_threads, caller, nsub, nrsp, sub_log, fragVars, supVars, dispVars>>

\* the connection handler, woken by the stop request, cancels and joins the
\* stage threads
ActTeardown ==
    /\ ~crashed
    /\ stop_threads # 0
    /\ \E k \in DOMAIN th : th[k] = "run"
    /\ th' = [k \in DOMAIN th |-> "exit"]
    /\ UNCHANGED <<act, amsg, actions, msgs, a_pkts, taq, tmq, tpq, acq, a_rmq, tags, stop_threads,
                   crashed, held, caller, nsub, nrsp, g, sub_log, fragVars, supVars, dispVars>>

ActInit ==
    /\ ActInitVars
    /\ FragInitVars
    /\ SupRunVars
    /\ DispRunVars

ActNext ==
    \/ mctp_submit
    \/ DeadlineElapse
    \/ SubmitWaitReturn
    \/ UserRetire
    \/ mctp_submission_thread
    \/ Elapse
    \/ RecvResponse
    \/ mctp_message_handler
    \/ mctp_packet_writer_act
    \/ mctp_socket_writer
    \/ mctp_completion_thread
    \/ ActTeardown

SpecAct == ActInit /\ [][ActNext]_vars

(***************************************************************************)
(* SpecSubmit: mctp_submit on a configured endpoint none of whose stage    *)
(* threads runs: its connection handler waits for a connection, or the     *)
(* last connection has ended.  Nothing takes actions out of TAQ.           *)
(***************************************************************************)
NoneRun == [k \in Stages |-> "none"]

SubmitInit ==
    /\ DispRunVars
    /\ act = [a \in ActIds |-> ZeroAct]
    /\ amsg = [i \in AMsgIds |-> ZeroAMsg]
    /\ actions = [k \in 1..NumActions |-> k]
    /\ msgs = [k \in 1..NumMsgs |-> k]
    /\ a_pkts = NumPkts
    /\ taq = <<>>
    /\ tmq = <<>>
    /\ tpq = <<>>
    /\ acq = <<>>
    /\ a_rmq = <<>>
    /\ tags = [t \in Tags |-> NULL]
    /\ stop_threads = 0
    /\ th = NoneRun
    /\ crashed = FALSE
    /\ held = {}
    /\ caller = NoCaller
    /\ nsub = 0
    /\ nrsp = 0
    /\ g = [a \in ActIds |-> NoHist]
    /\ sub_log = NoSubLog
    /\ FragInitVars
    /\ sup_pc = "accept"
    /\ mode = "server"
    /\ all_threads_started = 0
    /\ mtx = "free"
    /\ cancel_pending = FALSE
    /\ stop_pc = "idle"
    /\ nconn = 0
    /\ stop_how = "none"

\* mctp_submit on the idle endpoint
mctp_submit_idle == Submit(MaxIdleSubmits)

SubmitNext ==
    \/ mctp_submit_idle
    \/ DeadlineElapse
    \/ SubmitWaitReturn

SpecSubmit == SubmitInit /\ [][SubmitNext]_vars

(***************************************************************************)
(* Claims on the action pipeline (SpecAct, SpecSubmit)                     *)
(***************************************************************************)
\* action a has been promoted, no response was paired with it and no
\* stage has asked for the connection to be torn down
Unanswered(a) == g[a].pushes >= 1 /\ ~g[a].paired /\ stop_threads = 0

Max2(x, y) == IF x > y THEN x ELSE y

\* C4: an action submitted with retry = -1, unanswered on a connection that
\* stays up, is never failed or retired for retry exhaustion, and has been
\* pushed to TMQ once at promotion and once per elapsed action timeout.
C4_RetryForever ==
    \A a \in ActIds :
        (g[a].retry = -1 /\ Unanswered(a)) =>
            /\ ~g[a].exhausted
            /\ g[a].fn_failed = 0
            /\ g[a].pushes = g[a].touts + 1

C6_SubmitWait ==
    /\ (sub_log.why = "ok" /\ sub_log.rv # -1) => sub_log.rv \in ActIds
    /\ caller.pc = "returned" => (caller.paired_in_time <=> caller.rv = caller.ma)

C8_SubmittedCallback ==
    \A a \in ActIds : (g[a].cb /\ g[a].pushes >= 1) => g[a].fn_submitted >= 1

\* C9: since its submission an action has had at most one call of
\* fn_completed or fn_failed.
C9_SingleCall ==
    \A a \in ActIds : g[a].fn_completed + g[a].fn_failed <= 1

(***************************************************************************)
(* SpecSup: the connection handler thread (supervisor), the stage threads  *)
(* as far as they start and end, and a thread that calls mctp_stop.        *)
(* pthread_cancel is deferred: it is acted on at the next cancellation     *)
(* point of the connection handler (accept, pthread_cond_wait, close,      *)
(* pthread_join).  The endpoint runs with use_threads = 1.                 *)
(***************************************************************************)
\* stage threads whose loop is ended by the connection: recv() or send()
\* fails
FailStages == {"sr", "sw"}

\* state when mctp_run(dontblock) has returned: the connection handler has
\* configured the endpoint and, as a server, waits in accept, or, as a
\* client, is about to start the stage threads of the connection made
SupInit ==
    /\ DispRunVars
    /\ mode \in {"server", "client"}
    /\ sup_pc = (IF mode = "server" THEN "accept" ELSE "lock")
    /\ nconn = (IF mode = "server" THEN 0 ELSE 1)
    /\ all_threads_started = 0
    /\ mtx = "free"
    /\ cancel_pending = FALSE
    /\ stop_pc = "idle"
    /\ stop_how = "none"
    /\ act = [a \in ActIds |-> ZeroAct]
    /\ amsg = [i \in AMsgIds |-> ZeroAMsg]
    /\ actions = [k \in 1..NumActions |-> k]
    /\ msgs = [k \in 1..NumMsgs |-> k]
    /\ a_pkts = NumPkts
    /\ taq = <<>>
    /\ tmq = <<>>
    /\ tpq = <<>>
    /\ acq = <<>>
    /\ a_rmq = <<>>
    /\ tags = [t \in Tags |-> NULL]
    /\ stop_threads = 0
    /\ th = NoneRun
    /\ crashed = FALSE
    /\ held = {}
    /\ caller = NoCaller
    /\ nsub = 0
    /\ nrsp = 0
    /\ g = [a \in ActIds |-> NoHist]
    /\ sub_log = NoSubLog
    /\ FragInitVars

\* what the supervisor actions leave alone
supRest == <<act, amsg, actions, msgs, a_pkts, taq, tmq, tpq, acq, a_rmq, tags, crashed, held,
             caller, nsub, nrsp, g, sub_log, fragVars, dispVars>>

\* connection handler, LOOP 1: mctp_configure resets the flags and the bus
\* owner's endpoint ID, zeroes the stage thread objects (the reassembly
\* table and the sequence counters with them), frees the queues and pools
\* and creates new ones.  The tag table m->tags is not part of what it
\* resets
mctp_configure ==
    /\ sup_pc = "configure"
    /\ all_threads_started' = 0
    /\ stop_threads' = 0
    /\ pr_tags' = [t \in Tags |-> NULL]
    /\ pr_pkt_seq' = 0
    /\ pw_pkt_seq' = 0
    /\ rpq' = <<>>
    /\ rmq' = <<>>
    /\ rmsgs' = [k \in 1..Cardinality(RxMsgIds) |-> k]
    /\ taq' = <<>>
    /\ tmq' = <<>>
    /\ tpq' = <<>>
    /\ acq' = <<>>
    /\ a_rmq' = <<>>
    /\ actions' = [k \in 1..NumActions |-> k]
    /\ msgs' = [k \in 1..NumMsgs |-> k]
    /\ a_pkts' = NumPkts
    /\ sup_pc' = IF mode = "server" THEN "accept" ELSE "lock"
    /\ UNCHANGED <<th, mode, mtx, cancel_pending, stop_pc, nconn, stop_how>>
    /\ UNCHANGED <<act, amsg, tags, crashed, held, caller, nsub, nrsp, g, sub_log>>
    /\ state' = [state EXCEPT !.bus_owner_eid = 0]
    /\ sr' = SrZero
    /\ UNCHANGED <<tx_msg, tx_phase, tx_chain, pkts, wire, sent_log, probe, pr_mm, pr_cnt,
                   pr_state, rmsg, pr_hist, handlers, body, disp>>

\* mctp_submit by a library user of the endpoint the connection handler
\* serves
mctp_submit_conn == Submit(MaxSubmits)

\* connection handler, LOOP 2: accept returns a connection
SupAccept ==
    /\ sup_pc = "accept"
    /\ ~cancel_pending
    /\ nconn < MaxConns
    /\ nconn' = nconn + 1
    /\ sup_pc' = "lock"
    /\ UNCHANGED <<th, stop_threads, mode, all_threads_started, mtx, cancel_pending, stop_pc, stop_how, supRest>>

\* the connection handler, blocked in accept, is cancelled
SupCancelled ==
    /\ sup_pc = "accept"
    /\ cancel_pending
    /\ sup_pc' = "cancelled"
    /\ cancel_pending' = FALSE
    /\ UNCHANGED <<th, stop_threads, mode, all_threads_started, mtx, stop_pc, nconn, stop_how, supRest>>

\* connection handler, LOOP 3 and entry of LOOP 4: takes m->mtx, creates the
\* seven stage threads, sets all_threads_started and calls
\* pthread_cond_wait, which releases the mutex, or, with a cancel pending,
\* ends the thread with the mutex held
SupStart ==
    /\ sup_pc = "lock"
    /\ mtx = "free"
    /\ th' = AllRun
    /\ all_threads_started' = 1
    /\ IF cancel_pending
       THEN /\ sup_pc' = "cancelled"
            /\ cancel_pending' = FALSE
            /\ mtx' = "sup"
       ELSE /\ sup_pc' = "wait"
            /\ mtx' = "free"
            /\ UNCHANGED cancel_pending
    /\ UNCHANGED <<stop_threads, mode, stop_pc, nconn, stop_how, supRest>>

\* connection handler, LOOP 4 to LOOP 7: woken with stop_threads set, it
\* holds the mutex again, closes the connection, cancels the stage threads
\* and joins them, clears their handles and releases the mutex.  A stage
\* thread that waits for the mutex in mctp_request_stop is at no
\* cancellation point: the join of that thread does not return
SupTeardown ==
    /\ sup_pc = "wait"
    /\ stop_threads # 0
    /\ mtx = "free"
    /\ IF cancel_pending
       THEN /\ sup_pc' = "cancelled"
            /\ cancel_pending' = FALSE
            /\ mtx' = "sup"
            /\ UNCHANGED th
       ELSE IF \E k \in Stages : th[k] = "stopping"
       THEN /\ sup_pc' = "joining"
            /\ mtx' = "sup"
            /\ th' = [k \in Stages |-> IF th[k] = "stopping" THEN "stopping" ELSE "exit"]
            /\ UNCHANGED cancel_pending
       ELSE /\ sup_pc' = "check"
            /\ th' = NoneRun
            /\ UNCHANGED <<mtx, cancel_pending>>
    /\ UNCHANGED <<stop_threads, mode, all_threads_started, stop_pc, nconn, stop_how, supRest>>

\* connection handler, loop condition: a server whose stop was not asked
\* for by mctp_stop goes on with the next connection, else the thread ends
SupCheck ==
    /\ sup_pc = "check"
    /\ sup_pc' = IF stop_threads # 1 /\ mode = "server" THEN "configure" ELSE "end"
    /\ UNCHANGED <<th, stop_threads, mode, all_threads_started, mtx, cancel_pending, stop_pc,
                   nconn, stop_how, supRest>>

\* a stage thread leaves its loop, on a connection error or because
\* stop_threads is set, and tests stop_threads: if no stop was requested it
\* goes on to mctp_request_stop, else it returns
StageExit ==
    /\ \E k \in Stages :
          /\ th[k] = "run"
          /\ k \in FailStages \/ stop_threads # 0
          /\ th' = [th EXCEPT ![k] = IF stop_threads = 0 THEN "stopping" ELSE "exit"]
    /\ UNCHANGED <<stop_threads, sup_pc, mode, all_threads_started, mtx, cancel_pending, stop_pc,
                   nconn, stop_how, supRest>>

\* mctp_request_stop called by a stage thread that left its loop: under
\* m->mtx, stop_threads = 2 and the connection handler is signalled
StageRequestStop ==
    /\ mtx = "free"
    /\ \E k \in Stages :
          /\ th[k] = "stopping"
          /\ th' = [th EXCEPT ![k] = "exit"]
    /\ stop_threads' = mctp_request_stop(stop_threads)
    /\ UNCHANGED <<sup_pc, mode, all_threads_started, mtx, cancel_pending, stop_pc, nconn,
                   stop_how, supRest>>

\* mctp_stop up to the unlock: with the stage threads not started the
\* connection handler is cancelled and the socket closed, else
\* stop_threads = 1 is signalled
mctp_stop ==
    /\ stop_pc = "idle"
    /\ mtx = "free"
    /\ IF all_threads_started = 0
       THEN /\ cancel_pending' = (sup_pc \notin {"cancelled", "end"})
            /\ UNCHANGED stop_threads
       ELSE /\ stop_threads' = 1
            /\ UNCHANGED cancel_pending
    /\ stop_pc' = "join"
    /\ stop_how' = IF all_threads_started = 0 THEN "cancel"
                   ELSE IF sup_pc = "wait" THEN "signal_running" ELSE "signal"
    /\ UNCHANGED <<th, sup_pc, mode, all_threads_started, mtx, nconn, supRest>>

\* mctp_stop: pthread_join(pt_ch) returns, and so does mctp_stop
StopJoin ==
    /\ stop_pc = "join"
    /\ sup_pc \in {"cancelled", "end"}
    /\ stop_pc' = "returned"
    /\ UNCHANGED <<th, stop_threads, sup_pc, mode, all_threads_started, mtx, cancel_pending,
                   nconn, stop_how, supRest>>

SupNext ==
    \/ mctp_configure
    \/ SupAccept
    \/ SupCancelled
    \/ SupStart
    \/ SupTeardown
    \/ SupCheck
    \/ StageExit
    \/ StageRequestStop
    \/ mctp_stop
    \/ StopJoin
    \/ mctp_submit_conn

SpecSup == SupInit /\ [][SupNext]_vars

\* C10: when mctp_stop has returned, the connection handler thread has
\* terminated and none of the seven stage threads is running.
C10_StopJoins ==
    stop_pc = "returned" =>
        /\ sup_pc \in {"cancelled", "end"}
        /\ \A k \in Stages : th[k] \notin {"run", "stopping"}

\* C11: once mctp_stop has set stop_threads = 1 while the stage threads of
\* a server run, stop_threads stays 1 and the connection handler does not
\* configure for or accept another connection.
C11_StopIsFinal ==
    (stop_how = "signal_running" /\ mode = "server") =>
        /\ stop_threads = 1
        /\ sup_pc \notin {"configure", "accept", "lock"}

\* the state mctp_configure makes for a connection: flags 0, queues empty,
\* pools full, no message under reassembly, sequence counters 0
FreshCycle ==
    /\ stop_threads = 0
    /\ all_threads_started = 0
    /\ taq = <<>> /\ tmq = <<>> /\ tpq = <<>> /\ acq = <<>> /\ a_rmq = <<>>
    /\ rpq = <<>> /\ rmq = <<>>
    /\ Len(actions) = NumActions /\ Len(msgs) = NumMsgs /\ a_pkts = NumPkts
    /\ pr_tags = [t \in Tags |-> NULL]
    /\ pr_pkt_seq = 0 /\ pw_pkt_seq = 0

\* C12: the connection handler, woken by a stage thread's stop request
\* (stop_threads = 2), joins all stage threads; after that a server
\* configures a fresh cycle and goes to accept, a client ends and stays
\* ended.
C12_AbnormalRecycle ==
    [][ /\ (sup_pc = "wait" /\ sup_pc' # "wait" /\ stop_threads = 2 /\ ~cancel_pending)
            => (sup_pc' = "check" /\ th' = NoneRun)
        /\ (sup_pc = "check" /\ sup_pc' # "check" /\ stop_threads = 2)
            => sup_pc' = (IF mode = "server" THEN "configure" ELSE "end")
        /\ (sup_pc = "configure" /\ sup_pc' # "configure")
            => (sup_pc' = "accept" /\ FreshCycle')
        /\ (sup_pc = "end" /\ mode = "client") => sup_pc' = "end"
      ]_vars

\* C13: when the completion thread has an action to pop from ACQ, each
\* kind of element is conserved: the elements in the pool and the elements
\* in flight (actions in a queue, in the tag table or kept by a callback,
\* the messages and packets they reference, the messages in RMQ) are
\* disjoint and add up to the pool capacity.
C13_Conservation ==
    LET Rng(q)  == {q[k] : k \in 1..Len(q)}
        flying  == (Rng(taq) \cup Rng(tmq) \cup Rng(tpq) \cup Rng(acq) \cup held
                       \cup {tags[t] : t \in Tags}) \ {NULL}
        mflying == ({act[a].req : a \in flying} \cup {act[a].rsp : a \in flying}
                       \cup Rng(a_rmq)) \ {NULL}
        psum[k \in 0..NumActions] ==
            IF k = 0 THEN 0 ELSE psum[k - 1] + (IF k \in flying THEN act[k].pw ELSE 0)
    IN  (acq # <<>> /\ th.ct = "run" /\ ~crashed) =>
            /\ Len(actions) + Cardinality(flying) = NumActions
            /\ Rng(actions) \cap flying = {}
            /\ Len(msgs) + Cardinality(mflying) = NumMsgs
            /\ Rng(msgs) \cap mflying = {}
            /\ a_pkts + psum[NumActions] = NumPkts

(***************************************************************************)
(* SpecDisp: an endpoint whose stage threads run receives a request of the *)
(* peer; the dispatcher hands it to the handler of its type.               *)
(***************************************************************************)
\* first payload byte of the SOM packet of the request
RxBytes == 0..255

\* requests the peer sends
MaxRequests == 1

\* source and endpoint ID of the Set Endpoint ID request of test_ctrl_set_eid
ReqSrc == 1
ReqEid == 2

\* message types the user calls mctp_set_handler with
SetTypes == {MCMT_PLDM, MCMT_MAX}

\* mctp_set_handler, called by the user before the peer sends
mctp_set_handler ==
    /\ nrsp = 0
    /\ \E type \in SetTypes :
          handlers' = IF type < MCMT_MAX THEN [handlers EXCEPT ![type] = "user"] ELSE handlers
    /\ UNCHANGED <<state, body, disp, fragVars, actVars, supVars>>

\* socket reader and packet reader on a one-packet request (SOM and EOM,
\* tag owner 1, a tag of tagset): a message of the pool takes the header fields, the
\* first payload byte as its type and the rest of the payload, and is
\* pushed to RMQ
RecvRequestOn(tagset) ==
    /\ ~crashed
    /\ th.sr = "run"
    /\ th.pr = "run"
    /\ nrsp < MaxRequests
    /\ msgs # <<>>
    /\ \E b \in RxBytes, dst \in {MCID_NULL, ReqEid}, rq \in {0, 1},
          op \in {MCSE_SET, MCSE_RESET}, eid \in {MCID_NULL, ReqEid}, t \in tagset :
          LET mm == Head(msgs)
              bd == [ZeroBody EXCEPT !.src = ReqSrc, !.dst = dst, !.req = rq,
                                     !.cmd = MCCM_SET_ENDPOINT_ID, !.operation = op, !.eid = eid]
          IN  /\ amsg' = [amsg EXCEPT ![mm] = [owner |-> 1, tag |-> t, type |-> b,
                                                len |-> MCLN_BTU - 1]]
              /\ body' = [body EXCEPT ![mm] = bd]
              /\ disp' = [disp EXCEPT !.byte = b, !.req = bd]
    /\ msgs' = Tail(msgs)
    /\ a_rmq' = pq_push(a_rmq, Head(msgs), MCTP_RMQ_SIZE)
    /\ nrsp' = nrsp + 1
    /\ th' = [th EXCEPT !.sr = LoopEnd(stop_threads), !.pr = LoopEnd(stop_threads)]
    /\ UNCHANGED <<act, actions, a_pkts, taq, tmq, tpq, acq, tags, stop_threads, crashed, held,
                   caller, nsub, g, sub_log, fragVars, supVars, handlers, state>>

\* the peer's request carries tag 0
RecvRequest == RecvRequestOn({0})

DispInit ==
    /\ ActInitVars
    /\ FragInitVars
    /\ SupRunVars
    /\ handlers = InitHandlers
    /\ state = [eid |-> MCID_NULL, bus_owner_eid |-> MCID_NULL]
    /\ body = [i \in AMsgIds |-> ZeroBody]
    /\ disp = NoDisp

DispNext ==
    \/ mctp_set_handler
    \/ RecvRequest
    \/ mctp_message_handler
    \/ mctp_packet_writer_act
    \/ mctp_socket_writer
    \/ mctp_completion_thread
    \/ UserRetire

SpecDisp == DispInit /\ [][DispNext]_vars

\* C14: when the dispatcher has taken a request whose type has no handler,
\* the process runs on, no handler has been called, and the action and the
\* message are back in their pools.
C14_NoHandlerDrop ==
    (disp.idx # -1 /\ disp.fn \notin {"ctrl", "user"}) =>
        /\ ~crashed
        /\ \A a \in ActIds : g[a].handler = 0
        /\ Len(actions) = NumActions
        /\ Len(msgs) = NumMsgs

\* C15: the index the dispatcher selects the handler of a request with is
\* the low 7 bits of the first payload byte of its SOM packet, and lies in
\* the handler table.
C15_IcBitIgnored ==
    disp.idx # -1 =>
        /\ disp.idx = disp.byte % 128
        /\ disp.idx < MCMT_MAX

\* C16: the Set Endpoint ID request of test_ctrl_set_eid (tag owner 1,
\* tag 0, request bit 1, operation SET, eid 0x02, dst 0x02, src 0x01), once
\* dispatched on an endpoint without an endpoint ID, has been accepted:
\* eid = 0x02, bus_owner_eid = 0x01, and the response (owner 0, tag 0,
\* completion code 0, ACCEPTED, eid 0x02) was pushed to TMQ.
C16_SetEidAccepted ==
    (/\ disp.idx = MCMT_CONTROL
     /\ disp.byte = MCMT_CONTROL
     /\ disp.req = [ZeroBody EXCEPT !.src = ReqSrc, !.dst = ReqEid, !.req = 1,
                                    !.cmd = MCCM_SET_ENDPOINT_ID, !.operation = MCSE_SET,
                                    !.eid = ReqEid]) =>
        /\ state = [eid |-> ReqEid, bus_owner_eid |-> ReqSrc]
        /\ disp.rsp = [owner |-> 0, tag |-> 0, comp_code |-> MCCC_SUCCESS,
                       assignment |-> SET_EID_ACCEPTED, eid |-> ReqEid]

\* C17: every action in a slot of the tag table has 1 <= num <= max.
C17_NumWithinMax ==
    \A t \in Tags :
        tags[t] # NULL => (1 <= act[tags[t]].num /\ act[tags[t]].num <= act[tags[t]].max)

(***************************************************************************)
(* SpecReuse: the action pipeline without inbound traffic, under a user    *)
(* who submits again after an earlier action has come back to the pool.    *)
(***************************************************************************)
\* mctp_submit calls of SpecReuse
MaxResubmits == 3

mctp_submit_again == Submit(MaxResubmits)

ReuseNext ==
    \/ mctp_submit_again
    \/ mctp_submission_thread
    \/ mctp_packet_writer_act
    \/ mctp_socket_writer
    \/ mctp_completion_thread

SpecReuse == ActInit /\ [][ReuseNext]_vars

\* C18: no two slots of the tag table hold the same action, and the
\* request of the action in slot i carries tag i.
C18_SlotsDistinct ==
    \A i \in Tags :
        tags[i] # NULL =>
            /\ \A j \in Tags \ {i} : tags[j] # tags[i]
            /\ act[tags[i]].req # NULL => amsg[act[tags[i]].req].tag = i

\* C19: no action is referenced from two of the containers action pool,
\* TAQ, tag table, TMQ, TPQ and ACQ at the same time.
C19_OneContainer ==
    LET Rng(q) == {q[k] : k \in 1..Len(q)}
        C == <<Rng(actions), Rng(taq), {tags[t] : t \in Tags} \ {NULL}, Rng(tmq), Rng(tpq),
               Rng(acq)>>
    IN  \A a \in ActIds : Cardinality({k \in 1..Len(C) : a \in C[k]}) <= 1

\* C20: a step in which the dispatcher pairs an action with its response,
\* or the scheduler finds its retries exhausted, and the action goes back
\* to the action pool, leaves no reference to the action in TMQ or TPQ.
C20_NoRetireWhileQueued ==
    [][ LET Rng(q) == {q[k] : k \in 1..Len(q)}
        IN  \A a \in ActIds :
                (/\ a \notin Rng(actions)
                 /\ a \in Rng(actions')
                 /\ \/ g'[a].exhausted /\ ~g[a].exhausted
                    \/ g'[a].paired /\ ~g[a].paired)
                => a \notin (Rng(tmq') \cup Rng(tpq'))
      ]_vars

(***************************************************************************)
(* Claims on the packet slots of the action pipeline (SpecAct)             *)
(***************************************************************************)
\* C21: every packet slot is in exactly one of the packet pool, RPQ, the
\* reassembler's hand, an action's outbound chain and the socket writer's
\* hand.  On the action pipeline a received packet is taken from the pool
\* and returned to it within RecvResponse, and the socket writer sends the
\* chain of the action it popped, so the slots of the pool and the slots
\* of the chains add up to the capacity of the pool: none is counted
\* twice, none is missing.
C21_SlotInOnePlace ==
    LET chained[k \in 0..NumActions] == IF k = 0 THEN 0 ELSE chained[k - 1] + act[k].pw
    IN  ~crashed => a_pkts + chained[NumActions] = NumPkts

\* C22: when the packet writer fragments an action that already carries a
\* chain, the slots of the old chain go back to the packet pool: after the
\* step the chain has exactly packet-count slots, the pool has lost the new
\* chain and regained the old one, and the slots outside the pool are the
\* slots of the chains.
C22_OldChainReturned ==
    [][ LET ma == Head(tmq)
            mm == IF act[ma].rsp # NULL THEN act[ma].rsp ELSE act[ma].req
            chained[k \in 0..NumActions] == IF k = 0 THEN 0 ELSE chained[k - 1] + act'[k].pw
        IN  (/\ tmq # <<>>
             /\ tmq' = Tail(tmq)
             /\ ~crashed'
             /\ act[ma].pw > 0
             /\ mctp_pkt_count(amsg[mm]) > 0)
            => /\ act'[ma].pw = mctp_pkt_count(amsg[mm])
               /\ a_pkts' = a_pkts + act[ma].pw - act'[ma].pw
               /\ a_pkts' + chained[NumActions] = NumPkts
      ]_vars

(***************************************************************************)
(* SpecLive: the action pipeline under fair scheduling.  Every stage       *)
(* thread that has something to do gets to do it, the clock advances, and  *)
(* a caller pending in mctp_submit returns.  The peer sends nothing; the   *)
(* user retires the actions it kept, or does not.                          *)
(***************************************************************************)
\* mctp_submit calls of SpecLive
MaxLiveSubmits == 2

mctp_submit_live == Submit(MaxLiveSubmits)

LiveNext ==
    \/ mctp_submit_live
    \/ DeadlineElapse
    \/ SubmitWaitReturn
    \/ UserRetire
    \/ mctp_submission_thread
    \/ Elapse
    \/ mctp_packet_writer_act
    \/ mctp_socket_writer
    \/ mctp_completion_thread

\* a pass of the submission thread has something to do: an outstanding
\* action has timed out, or TAQ has an action and a tag slot is free, or
\* the loop ends on the stop flag
SchedHasWork ==
    /\ ~crashed
    /\ th.st = "run"
    /\ \/ stop_threads # 0
       \/ \E i \in Tags : tags[i] # NULL /\ act[tags[i]].submitted = "old"
       \/ taq # <<>> /\ \E i \in Tags : tags[i] = NULL

\* weak fairness of the submission thread (its enabling condition written
\* out), of the clock and of the other stages
Fairness ==
    /\ ([]<>~SchedHasWork) \/ ([]<><<mctp_submission_thread>>_vars)
    /\ WF_vars(Elapse)
    /\ WF_vars(mctp_packet_writer_act)
    /\ WF_vars(mctp_socket_writer)
    /\ WF_vars(mctp_completion_thread)
    /\ WF_vars(DeadlineElapse)
    /\ WF_vars(SubmitWaitReturn)

SpecLive == ActInit /\ [][LiveNext]_vars /\ Fairness

\* C23: while the connection stays up, an action accepted into TAQ is
\* eventually promoted into a tag slot, and an action in the tag table
\* eventually leaves it.
C23_EventuallyServed ==
    LET Waiting(a) == \E k \in 1..Len(taq) : taq[k] = a
        Tagged(a)  == \E t \in Tags : tags[t] = a
    IN  \A a \in ActIds :
            /\ Waiting(a) ~> (Tagged(a) \/ stop_threads # 0)
            /\ Tagged(a) ~> (~Tagged(a) \/ stop_threads # 0)

(***************************************************************************)
(* SpecSupFair: the connection handler and the stage threads under fair    *)
(* scheduling: a thread that can take its next step takes it.  Whether a   *)
(* stage fails, and whether mctp_stop is called, stays open.               *)
(***************************************************************************)
SupFairness ==
    /\ WF_vars(SupTeardown)
    /\ WF_vars(SupCheck)
    /\ WF_vars(StageRequestStop)

SpecSupFair == SupInit /\ [][SupNext]_vars /\ SupFairness

\* C24: once a stage thread has requested the stop (stop_threads = 2) and
\* as long as mctp_stop is not called, the connection handler eventually
\* has closed the connection and joined all seven stage threads.
C24_TeardownCompletes ==
    (stop_threads = 2 /\ stop_pc = "idle")
        ~> \/ stop_pc # "idle"
           \/ /\ sup_pc \notin {"wait", "joining"}
              /\ \A k \in Stages : th[k] \notin {"run", "stopping"}

(***************************************************************************)
(* SpecConn: the connection handler together with the submission thread of *)
(* the connection it serves and the users that call mctp_submit            *)
(***************************************************************************)
ConnNext ==
    \/ SupNext
    \/ mctp_submission_thread

SpecConn == SupInit /\ [][ConnNext]_vars

\* C25: between the teardown of a connection and the start of the stage
\* threads of the next one, every slot of the tag table is empty.
C25_TagsEmptyBetweenConns ==
    LET between == \/ sup_pc \in {"check", "configure"}
                   \/ mode = "server" /\ sup_pc = "accept" /\ nconn >= 1
                   \/ mode = "server" /\ sup_pc = "lock" /\ nconn >= 2
    IN  between => \A t \in Tags : tags[t] = NULL

(***************************************************************************)
(* SpecRsp: the action pipeline with a peer whose responses carry the type *)
(* of the request or another message type                                  *)
(***************************************************************************)
\* first payload byte of the responses the peer sends
RspTypes == {MCMT_PLDM, MCMT_NCSI}

\* socket reader and packet reader on a one-packet response with tag t and
\* type byte b
RecvTypedResponse ==
    /\ ~crashed
    /\ th.sr = "run"
    /\ th.pr = "run"
    /\ nrsp < MaxResponses
    /\ msgs # <<>>
    /\ a_pkts > 0
    /\ \E t \in RspTags, b \in RspTypes :
          amsg' = [amsg EXCEPT ![Head(msgs)] = [owner |-> 0, tag |-> t, type |-> b, len |-> MCLN_BTU - 1]]
    /\ msgs' = Tail(msgs)
    /\ a_rmq' = pq_push(a_rmq, Head(msgs), MCTP_RMQ_SIZE)
    /\ nrsp' = nrsp + 1
    /\ th' = [th EXCEPT !.sr = LoopEnd(stop_threads), !.pr = LoopEnd(stop_threads)]
    /\ UNCHANGED <<act, actions, a_pkts, taq, tmq, tpq, acq, tags, stop_threads, crashed, held,
                   caller, nsub, g, sub_log, fragVars, supVars, dispVars>>

RspNext ==
    \/ mctp_submit
    \/ DeadlineElapse
    \/ SubmitWaitReturn
    \/ UserRetire
    \/ mctp_submission_thread
    \/ Elapse
    \/ RecvTypedResponse
    \/ mctp_message_handler
    \/ mctp_packet_writer_act
    \/ mctp_socket_writer
    \/ mctp_completion_thread
    \/ ActTeardown

SpecRsp == ActInit /\ [][RspNext]_vars

\* C26: a step of the message handler on a response with tag t leaves
\* every tag slot other than t as it was; with slot t empty the message
\* goes back to the message pool and nothing is called; with an action in
\* slot t the slot is cleared, the message becomes the action's response
\* and exactly one call is made, of fn_completed or of the handler of the
\* message type.
C26_ResponseFrame ==
    [][ LET mm == Head(a_rmq)
            t  == amsg[mm].tag
            ma == tags[t]
            calls(h, a) == h[a].fn_completed + h[a].handler
        IN  (a_rmq # <<>> /\ a_rmq' = Tail(a_rmq) /\ amsg[mm].owner = 0) =>
                /\ \A u \in Tags \ {t} : tags'[u] = tags[u]
                /\ ma = NULL =>
                      /\ msgs' = Append(msgs, mm)
                      /\ \A a \in ActIds : calls(g', a) = calls(g, a)
                /\ ma # NULL =>
                      /\ tags'[t] = NULL
                      /\ g'[ma].paired
                      /\ calls(g', ma) = calls(g, ma) + 1
                      /\ \A a \in ActIds \ {ma} : calls(g', a) = calls(g, a)
      ]_vars

(***************************************************************************)
(* SpecRx: the socket reader and the packet reader under a peer that sends *)
(* any packets: any tag, tag owner, sequence number, SOM and EOM bit       *)
(***************************************************************************)
\* number of packets the peer sends
MaxRxPkts == 3
\* tags the peer uses
RxTags == {0, 1}

\* packets the socket reader has pushed to RPQ so far
RxCount == pr_cnt.packet_count + Len(rpq)

\* one iteration of the socket reader: recv() fills a packet slot with the
\* 68 bytes the peer has sent, and the slot is pushed to RPQ.  The payload
\* of the k-th packet is a pattern of its own
mctp_socket_reader ==
    /\ RxCount < MaxRxPkts
    /\ rpq = <<>>
    /\ \E tag \in RxTags, owner \in {0, 1}, som \in {0, 1}, eom \in {0, 1}, seq \in 0..3 :
          LET pkt == [ZeroPkt EXCEPT !.ver = 1, !.tag = tag, !.owner = owner, !.som = som,
                                     !.eom = eom, !.seq = seq,
                                     !.payload = [j \in 1..MCLN_BTU |-> PatByte(RxCount + 1, j - 1)]]
          IN  /\ rpq' = pq_push(rpq, pkt, MCTP_RPQ_SIZE)
              /\ sr' = SrPushed(pkt, MCLN_PKT)
    /\ UNCHANGED <<tx_msg, tx_phase, tx_chain, pkts, pw_pkt_seq, wire, sent_log, probe,
                   pr_pkt_seq, pr_tags, pr_mm, pr_cnt, pr_state, rmsg, rmsgs, rmq, pr_hist, actVars, supVars, dispVars>>

RxNext ==
    \/ mctp_socket_reader
    \/ mctp_packet_reader

SpecRx == FragInit /\ [][RxNext]_vars

\* C27: in every message delivered to RMQ, each packet copied into the
\* message after the first has the sequence number of the packet copied
\* before it plus 1, modulo 4.
C27_SeqConsecutive ==
    \A k \in 1..Len(rmq) :
        LET h == pr_hist[rmq[k]]
        IN  \A j \in 1..(Len(h) - 1) : h[j + 1].seq = (h[j].seq + 1) % 4

\* C28: a message in RMQ has as payload the payloads of the packets copied
\* into it, in arrival order, without the first byte of the SOM packet; that
\* byte is its type; its length is 63 for the SOM packet plus 64 for each
\* later packet; every one of the packets has the tag and the tag owner of
\* the message.
C28_PayloadIsConcat ==
    \A k \in 1..Len(rmq) :
        LET mm == rmsg[rmq[k]]
            h  == pr_hist[rmq[k]]
            byte(i) == IF i < MCLN_BTU - 1 THEN h[1].payload[i + 2]
                       ELSE h[2 + ((i - (MCLN_BTU - 1)) \div MCLN_BTU)]
                             .payload[1 + ((i - (MCLN_BTU - 1)) % MCLN_BTU)]
        IN  /\ Len(h) >= 1
            /\ h[1].som = 1
            /\ mm.len = (MCLN_BTU - 1) + MCLN_BTU * (Len(h) - 1)
            /\ mm.type = h[1].payload[1]
            /\ \A j \in 1..Len(h) : h[j].tag = mm.tag /\ h[j].owner = mm.owner
            /\ \A i \in 0..((MCLN_BTU - 1) + MCLN_BTU * (Len(h) - 1) - 1) : MsgByte(mm, i) = byte(i)

\* C29: the packet reader, on a packet with the expected sequence number
\* whose tag owner differs from that of the message in process for its tag,
\* returns that message to the message pool, counts dropped_wrongto, copies
\* nothing, delivers nothing and goes on with the next packet.
C29_WrongOwnerDropped ==
    [][ LET pw == Head(rpq)
            id == pr_tags[pw.tag]
        IN  (/\ pr_state = "run"
             /\ rpq # <<>>
             /\ rpq' = Tail(rpq)
             /\ pw.ver = 1
             /\ pw.seq = pr_pkt_seq
             /\ id # NULL
             /\ pw.owner # rmsg[id].owner)
            => /\ pr_state' = "run"
               /\ rmsgs' = Append(rmsgs, id)
               /\ pr_tags' = [pr_tags EXCEPT ![pw.tag] = NULL]
               /\ pr_cnt' = [pr_cnt EXCEPT !.packet_count = @ + 1, !.dropped_wrongto = @ + 1]
               /\ rmsg' = rmsg
               /\ rmq' = rmq
      ]_vars

\* C30: the packet reader, on a packet with the expected sequence number
\* that is no SOM packet and whose tag has no message in process, counts
\* dropped_nosom and changes no message, neither the message pool nor RMQ nor
\* the messages in process.
C30_NoSomFrame ==
    [][ LET pw == Head(rpq)
        IN  (/\ pr_state = "run"
             /\ rpq # <<>>
             /\ rpq' = Tail(rpq)
             /\ pw.ver = 1
             /\ pw.seq = pr_pkt_seq
             /\ pw.som = 0
             /\ pr_tags[pw.tag] = NULL)
            => /\ pr_state' = "run"
               /\ pr_cnt' = [pr_cnt EXCEPT !.packet_count = @ + 1, !.dropped_nosom = @ + 1]
               /\ rmsg' = rmsg
               /\ rmsgs' = rmsgs
               /\ rmq' = rmq
               /\ pr_tags' = pr_tags
      ]_vars

\* C31: the packet reader, on a packet whose sequence number is not the
\* expected one, returns the message in process for the packet's tag to
\* the pool and counts dropped_seqnum; a packet without SOM is dropped
\* (no message changes, nothing is delivered, the expected number advances
\* by one); a SOM packet is kept: it starts a message, and the expected
\* number becomes its number plus one.  So after an accepted packet 0 the
\* packets 2 and 3 without SOM are both dropped.
C31_SeqMismatch ==
    [][ LET pw == Head(rpq)
            id == pr_tags[pw.tag]
            pool == IF id # NULL THEN Append(rmsgs, id) ELSE rmsgs
        IN  (/\ pr_state = "run"
             /\ rpq # <<>>
             /\ rpq' = Tail(rpq)
             /\ pw.ver = 1
             /\ pw.seq # pr_pkt_seq)
            => /\ pr_state' = "run"
               /\ pr_cnt'.dropped_seqnum = pr_cnt.dropped_seqnum + 1
               /\ pw.som = 0 =>
                     /\ rmsgs' = pool
                     /\ pr_tags' = [pr_tags EXCEPT ![pw.tag] = NULL]
                     /\ rmsg' = rmsg
                     /\ rmq' = rmq
                     /\ pr_pkt_seq' = (pr_pkt_seq + 1) % 4
               /\ pw.som = 1 =>
                     /\ rmsgs' = Tail(pool)
                     /\ pr_hist'[Head(pool)] = <<pw>>
                     /\ pr_pkt_seq' = (pw.seq + 1) % 4
                     /\ IF pw.eom = 1
                        THEN rmq' = Append(rmq, Head(pool)) /\ pr_tags'[pw.tag] = NULL
                        ELSE rmq' = rmq /\ pr_tags'[pw.tag] = Head(pool)
      ]_vars

\* a SOM packet 0 on tag 0 was accepted, the two packets after it had the
\* wrong number and no SOM, and nothing was delivered
C31_Witness ==
    /\ pr_cnt.packet_count = 3
    /\ pr_cnt.dropped_seqnum = 2
    /\ Len(pr_hist[1]) = 1 /\ pr_hist[1][1].seq = 0 /\ pr_hist[1][1].tag = 0
    /\ pr_hist[2] = <<>>
    /\ pr_tags[0] = NULL
    /\ rmsgs = <<2, 3, 4, 5, 1>>
    /\ pr_pkt_seq = 3
    /\ rmq = <<>>


(***************************************************************************)
(* SpecLong: the socket reader and the packet reader under a peer that     *)
(* sends one long message: a SOM packet and then packets without SOM and   *)
(* without EOM on the same tag, with consecutive sequence numbers          *)
(***************************************************************************)
\* number of packets of the long message: the SOM packet brings 63 bytes and
\* each later packet 64, so the 129th packet is the first that is appended
\* past MCLN_MSG_PAYLOAD
MaxLongPkts == 130

\* one iteration of the socket reader: the next packet of the long message
\* is received in full and pushed to RPQ
mctp_socket_reader_long ==
    /\ RxCount < MaxLongPkts
    /\ rpq = <<>>
    /\ LET pkt == [ZeroPkt EXCEPT !.ver = 1, !.tag = 0, !.owner = 1,
                                  !.som = IF RxCount = 0 THEN 1 ELSE 0,
                                  !.eom = 0, !.seq = RxCount % 4,
                                  !.payload = [j \in 1..MCLN_BTU |-> PatByte(RxCount + 1, j - 1)]]
       IN  /\ rpq' = pq_push(rpq, pkt, MCTP_RPQ_SIZE)
           /\ sr' = SrPushed(pkt, MCLN_PKT)
    /\ UNCHANGED <<tx_msg, tx_phase, tx_chain, pkts, pw_pkt_seq, wire, sent_log, probe,
                   pr_pkt_seq, pr_tags, pr_mm, pr_cnt, pr_state, rmsg, rmsgs, rmq, pr_hist, actVars, supVars, dispVars>>

LongNext ==
    \/ mctp_socket_reader_long
    \/ mctp_packet_reader

SpecLong == FragInit /\ [][LongNext]_vars

\* C32: the len of every message, of the reassembler's pool and of the pool
\* mctp_submit fills, is at most MCLN_MSG_PAYLOAD (8192) in every reachable
\* state.
C32_LenBounded ==
    /\ \A i \in RxMsgIds : rmsg[i].len <= MCLN_MSG_PAYLOAD
    /\ \A i \in AMsgIds : amsg[i].len <= MCLN_MSG_PAYLOAD


(***************************************************************************)
(* SpecSock: the socket reader alone, the packet reader not scheduled:     *)
(* recv() fails, returns part of a record or a full record; RPQ fills up   *)
(***************************************************************************)
\* capacity of RPQ in SpecSock, scaled below the number of packet slots
SockRpqSize == 2
\* number of records the socket reader receives
MaxSockReads == 4

\* what recv() returns: an error, end of stream, the header only, a full record
SockRvs == {-1, 0, MCLN_HDR, MCLN_PKT}

\* the number of free packet slots after the slot of a dropped packet went
\* back to the pool, free being the number while the reader held the slot
SrDrop_m(free) == free
SrDrop(free) == free + 1

\* one iteration of the socket reader: a slot is popped from the pool and
\* recv() writes rv bytes of the next record into it, the rest of the slot
\* keeps what it held (zeroes, or an earlier payload)
mctp_socket_reader_rv ==
    /\ ~crashed
    /\ th.sr = "run"
    /\ a_pkts > 0
    /\ sr.packet_count < MaxSockReads
    /\ \E rv \in SockRvs, som \in {0, 1}, eom \in {0, 1}, seq \in 0..3, stale \in {Zeros(MCLN_BTU), sr.last} :
          IF rv <= 0
          THEN /\ th' = [th EXCEPT !.sr = "exit"]
               /\ stop_threads' = IF stop_threads = 0 THEN mctp_request_stop(stop_threads)
                                  ELSE stop_threads
               /\ UNCHANGED <<a_pkts, rpq, sr>>
          ELSE LET pkt == [ZeroPkt EXCEPT !.ver = 1, !.owner = 1, !.som = som, !.eom = eom, !.seq = seq,
                                          !.payload = IF rv = MCLN_PKT
                                                      THEN [j \in 1..MCLN_BTU |-> PatByte(sr.packet_count + 1, j - 1)]
                                                      ELSE stale]
               IN  /\ IF Len(rpq) < SockRpqSize
                      THEN /\ rpq' = pq_push(rpq, pkt, SockRpqSize)
                           /\ a_pkts' = a_pkts - 1
                           /\ sr' = SrPushed(pkt, rv)
                      ELSE /\ rpq' = rpq
                           /\ a_pkts' = SrDrop(a_pkts - 1)
                           /\ sr' = [sr EXCEPT !.packet_count = @ + 1, !.dropped_count = @ + 1,
                                               !.last = pkt.payload]
                   /\ th' = [th EXCEPT !.sr = LoopEnd(stop_threads)]
                   /\ UNCHANGED stop_threads
    /\ UNCHANGED <<tx_msg, tx_phase, tx_chain, pkts, pw_pkt_seq, wire, sent_log, probe,
                   pr_pkt_seq, pr_tags, pr_mm, pr_cnt, pr_state, rmsg, rmsgs, rmq, pr_hist,
                   act, amsg, actions, msgs, taq, tmq, tpq, acq, a_rmq, tags, crashed, held, caller,
                   nsub, nrsp, g, sub_log, supVars, dispVars>>

SockNext == mctp_socket_reader_rv

SpecSock == FragInit /\ [][SockNext]_vars

C34_OnlyFullRecords ==
    \A k \in 1..Len(sr.pushed) : sr.pushed[k] = MCLN_PKT


FullRmqSize == 1

mctp_packet_reader_full == PacketReader(FullRmqSize)

FullNext ==
    \/ mctp_socket_reader
    \/ mctp_packet_reader_full

SpecFull == FragInit /\ [][FullNext]_vars

TagsMtxHeld(stage) == stage = "st"

\* the operations a pass of the submission thread has performed
SchedOps ==
    (IF taq' # taq THEN {"pq_pop"} ELSE {})
    \cup (IF \E a \in ActIds : g'[a].pushes # g[a].pushes THEN {"pq_push"} ELSE {})
    \cup (IF \E a \in ActIds : g'[a].exhausted # g[a].exhausted THEN {"fn_failed or mctp_retire"} ELSE {})

\* the operations an iteration of the message handler has performed
DispOps ==
    (IF a_rmq' # a_rmq THEN {"pq_pop"} ELSE {})
    \cup (IF msgs' # msgs \/ actions' # actions THEN {"pool"} ELSE {})
    \cup (IF \E a \in ActIds : g'[a].paired # g[a].paired \/ g'[a].handler # g[a].handler
          THEN {"callback"} ELSE {})

\* C37: neither the submission thread nor the message handler holds
\* m->tags_mtx while it performs a queue or pool operation (which takes the
\* lock of the queue), a callback or a retire.
C37_TagsMtxReleased ==
    [][ /\ mctp_submission_thread => (SchedOps # {} => ~TagsMtxHeld("st"))
        /\ mctp_message_handler => (DispOps # {} => ~TagsMtxHeld("mh"))
      ]_vars


(***************************************************************************)
(* SpecTag: SpecDisp with a peer that sends its request with any tag       *)
(***************************************************************************)
\* the peer's request carries any of the MCTP_NUM_TAGS tags
RecvRequestAnyTag == RecvRequestOn(Tags)

TagNext ==
    \/ mctp_set_handler
    \/ RecvRequestAnyTag
    \/ mctp_message_handler
    \/ mctp_packet_writer_act
    \/ mctp_socket_writer
    \/ mctp_completion_thread
    \/ UserRetire

SpecTag == DispInit /\ [][TagNext]_vars

\* C38: the response of every action the control handler has pushed to TMQ
\* has tag owner 0, the tag of the request, the request's src as dst, the
\* request's dst as src and the type of the request.
C38_ResponseHeader ==
    \A k \in 1..Len(tmq) :
        LET ma  == tmq[k]
            req == act[ma].req
            rsp == act[ma].rsp
        IN  (req # NULL /\ rsp # NULL) =>
                /\ amsg[rsp].owner = 0
                /\ amsg[rsp].tag = amsg[req].tag
                /\ body[rsp].dst = body[req].src
                /\ body[rsp].src = body[req].dst
                /\ amsg[rsp].type = amsg[req].type


\* C39: every action that is not in the action pool is where a stage or the
\* user will take it from to retire it (a queue, a tag slot, the user's
\* hands), and every message that is not in the message pool is in RMQ or
\* belongs to such an action: nothing the dispatcher handed to a handler is
\* left without a path back to its pool.
C39_ReturnPath ==
    LET In(q, x) == \E k \in 1..Len(q) : q[k] = x
        Owned(a) == \/ In(taq, a) \/ In(tmq, a) \/ In(tpq, a) \/ In(acq, a)
                    \/ \E i \in Tags : tags[i] = a
                    \/ a \in held
    IN  ~crashed =>
            /\ \A a \in ActIds : In(actions, a) \/ Owned(a)
            /\ \A mm \in AMsgIds :
                  \/ In(msgs, mm)
                  \/ In(a_rmq, mm)
                  \/ \E a \in ActIds : Owned(a) /\ (act[a].req = mm \/ act[a].rsp = mm)


(***************************************************************************)
(* SpecSeq: SpecAct with the sequence numbers of the packet headers: the   *)
(* packet writer numbers the packets of each chain from its counter, the   *)
(* socket writer sends the chain the action points to                      *)
(***************************************************************************)
mctp_packet_writer_seq == PacketWriterAct(TRUE)

mctp_socket_writer_seq == SocketWriter(TRUE)

SeqNext ==
    \/ mctp_submit
    \/ DeadlineElapse
    \/ SubmitWaitReturn
    \/ UserRetire
    \/ mctp_submission_thread
    \/ Elapse
    \/ RecvResponse
    \/ mctp_message_handler
    \/ mctp_packet_writer_seq
    \/ mctp_socket_writer_seq
    \/ mctp_completion_thread
    \/ ActTeardown

SpecSeq == ActInit /\ [][SeqNext]_vars

\* C40: the k-th packet written to the socket of the connection carries
\* sequence number (k - 1) mod 4: the numbers start at 0 and are
\* consecutive modulo 4, across messages and retransmissions.
C40_WireSeqConsecutive ==
    \A k \in 1..Len(wire) : wire[k].seq = (k - 1) % 4

=============================================================================
